---- MODULE Spec2Model ----
(***************************************************************************)
(* Model of the permissioned market proxy of openbook-dex:                 *)
(*   dex/permissioned/src/proxy.rs       MarketProxy::run                  *)
(*   dex/permissioned/src/middleware.rs  Context, MarketMiddleware,        *)
(*                                       OpenOrdersPda, Logger,            *)
(*                                       ReferralFees                      *)
(* One behaviour is one invocation of MarketProxy::run.  Positions in the  *)
(* comments are the 0-based positions of the Rust code; At(s, k) reads     *)
(* position k of a sequence.  A Rust panic (index out of range, unwrap of  *)
(* None) ends the invocation with the outcome "abort".                     *)
(***************************************************************************)
EXTENDS Integers, Sequences, FiniteSets, TLC

VARIABLES
    middlewares,   \* MarketProxy.middlewares: [kind, bump, bump_init] per entry
    accounts,      \* the `accounts` argument of run
    market_data,   \* data buffer of the account supplied at position 1
    token_owner,   \* the token account supplied at position 10: the authority it stores,
                   \* and whether the caller holds a mutable borrow of its data
    data,          \* the `data` argument of run
    ix_data,       \* the local cursor ix_data
    acc_infos,     \* the local acc_infos (accounts[1..])
    ctx,           \* the request Context
    ix,            \* the decoded MarketInstruction, or None
    pc,            \* position in run
    i,             \* index of the loop in progress (1-based)
    result,        \* "running", "Ok", an error, or "abort"
    calls,         \* history: hooks and external calls made so far, in order
    handed,        \* history: per operation hook called, the Context and payload it was
                   \* given and the Context and payload it left
    outcomes,      \* history: what each entry of `calls` returned ("Ok" or its error)
    cpis,          \* history: the external calls (invoke_signed) made so far
    local_signers  \* history: signer flags set by hooks, with the seeds the call pushed

vars == <<middlewares, accounts, market_data, token_owner, data, ix_data, acc_infos,
          ctx, ix, pc, i, result, calls, handed, outcomes, cpis, local_signers>>

(***************************************************************************)
(* Bounds of the model.                                                    *)
(***************************************************************************)
MaxChain == 2
MaxAccounts == 14

(***************************************************************************)
(* Sequences with the 0-based positions of the code.                       *)
(***************************************************************************)
At(s, k) == s[k + 1]

Has(s, k) == k >= 0 /\ k < Len(s)

Put(s, k, v) == [s EXCEPT ![k + 1] = v]

\* s[k..] of Rust (k <= Len(s))
From(s, k) == SubSeq(s, k + 1, Len(s))

Range(s) == {s[k] : k \in 1..Len(s)}

None == [op |-> "None", payload |-> <<>>]

(***************************************************************************)
(* Unsigned 64-bit values are kept as their 8 little-endian bytes, so the  *)
(* full width is there: u64::from_le_bytes is the identity on this form.   *)
(***************************************************************************)
RECURSIVE Pow256(_)
Pow256(k) == IF k = 0 THEN 1 ELSE 256 * Pow256(k - 1)

\* the u64 with value n, for n < 2^24
U64(n) == [k \in 1..8 |-> IF k <= 3 THEN (n \div Pow256(k - 1)) % 256 ELSE 0]

\* 2^(8k) as u64, k in 0..7
U64Pow(k) == [j \in 1..8 |-> IF j = k + 1 THEN 1 ELSE 0]

U64Max == [k \in 1..8 |-> 255]

IsZero(a) == \A k \in 1..Len(a) : a[k] = 0

\* column k (0-based) of the schoolbook product of two 8-byte numbers
RECURSIVE Column(_, _, _, _)
Column(a, b, k, j) ==
    IF j > 7 THEN 0
    ELSE (IF k - j >= 0 /\ k - j <= 7 THEN a[j + 1] * b[k - j + 1] ELSE 0)
         + Column(a, b, k, j + 1)

\* the 16 bytes of the full product, little-endian
RECURSIVE MulBytes(_, _, _, _)
MulBytes(a, b, k, carry) ==
    IF k > 15 THEN <<>>
    ELSE LET t == Column(a, b, k, 0) + carry
         IN  <<t % 256>> \o MulBytes(a, b, k + 1, t \div 256)

\* u64::checked_mul: [some |-> FALSE] on overflow
\* u64::wrapping_mul: the low 8 bytes of the product, whatever the high ones are
wrapping_mul(a, b) ==
    [some |-> TRUE, value |-> SubSeq(MulBytes(a, b, 0, 0), 1, 8)]

checked_mul(a, b) ==
    LET p == MulBytes(a, b, 0, 0)
    IN  IF IsZero(SubSeq(p, 9, 16))
        THEN [some |-> TRUE, value |-> SubSeq(p, 1, 8)]
        ELSE [some |-> FALSE, value |-> <<>>]

(***************************************************************************)
(* Account data buffers.  A buffer is [len, lot, fill]: `len` bytes, the   *)
(* bytes at 349..356 are `lot`, every other byte is `fill`.                *)
(***************************************************************************)
DataByteAt(d, idx) == IF idx >= 349 /\ idx <= 356 THEN d.lot[idx - 348] ELSE d.fill

\* &data[lo..hi] as a sequence; the caller checks hi <= d.len
DataSlice(d, lo, hi) == [k \in 1..(hi - lo) |-> DataByteAt(d, lo + k - 1)]

EmptyData == [len |-> 0, lot |-> U64(0), fill |-> 0]

(***************************************************************************)
(* Wire format of serum_dex::instruction::MarketInstruction (the crate is  *)
(* a dependency; modelled from the specification): one discriminant byte,  *)
(* then the fixed-layout payload of the operation.  The decoded payload is *)
(* kept as its bytes and read through the accessors below.                 *)
(***************************************************************************)
Ops == {"InitOpenOrders", "NewOrderV3", "CancelOrderV2", "CancelOrderByClientIdV2",
        "SettleFunds", "CloseOpenOrders", "ConsumeEvents",
        "ConsumeEventsPermissioned", "Prune"}

Discriminant(op) ==
    CASE op = "ConsumeEvents" -> 3
      [] op = "SettleFunds" -> 5
      [] op = "NewOrderV3" -> 10
      [] op = "CancelOrderV2" -> 11
      [] op = "CancelOrderByClientIdV2" -> 12
      [] op = "CloseOpenOrders" -> 14
      [] op = "InitOpenOrders" -> 15
      [] op = "Prune" -> 16
      [] op = "ConsumeEventsPermissioned" -> 17

\* NewOrderV3: side (1), max_coin_qty (8), max_native_pc_qty_including_fees (8);
\* CancelOrderV2: side (1), order id (1); CancelOrderByClientIdV2: client id (8);
\* ConsumeEvents, ConsumeEventsPermissioned, Prune: limit (2, u16)
PayloadLen(op) ==
    CASE op = "NewOrderV3" -> 17
      [] op = "CancelOrderV2" -> 2
      [] op = "CancelOrderByClientIdV2" -> 8
      [] op \in {"ConsumeEvents", "ConsumeEventsPermissioned", "Prune"} -> 2
      [] OTHER -> 0

side(x) == IF x.payload[1] = 0 THEN "Bid" ELSE "Ask"

max_coin_qty(x) == SubSeq(x.payload, 2, 9)

max_native_pc_qty_including_fees(x) == SubSeq(x.payload, 10, 17)

\* the fields of a payload hold values of their types (Side, NonZeroU64)
ValidPayload(op, p) ==
    /\ Len(p) = PayloadLen(op)
    /\ op = "NewOrderV3" =>
          /\ p[1] \in {0, 1}
          /\ ~IsZero(SubSeq(p, 2, 9))
          /\ ~IsZero(SubSeq(p, 10, 17))
    /\ op = "CancelOrderV2" => p[1] \in {0, 1}

\* MarketInstruction::unpack: None for an empty or malformed buffer
unpack(buf) ==
    IF Len(buf) = 0 THEN None
    ELSE LET hit == {op \in Ops : Discriminant(op) = buf[1] /\ ValidPayload(op, Tail(buf))}
         IN  IF hit = {} THEN None
             ELSE [op |-> CHOOSE op \in hit : TRUE, payload |-> Tail(buf)]

\* MarketInstruction::pack
pack(x) == <<Discriminant(x.op)>> \o x.payload

(***************************************************************************)
(* Identities.                                                             *)
(***************************************************************************)
SERUM_DEX_PROGRAM_ID == 0

\* AccountInfo: identity and the two local flags
AccountInfo(key, is_signer, is_writable) ==
    [key |-> key, is_signer |-> is_signer, is_writable |-> is_writable]

\* the data buffer of an account (only the market account's is read)
DataOf(acc) == IF acc.key = 1 THEN market_data ELSE EmptyData

(***************************************************************************)
(* Context (middleware.rs).                                                *)
(***************************************************************************)
Context_new(program_id, dex_program_id, accs) ==
    [program_id |-> program_id,
     dex_program_id |-> dex_program_id,
     accounts |-> accs,
     seeds |-> <<>>,
     pre_instructions |-> <<>>,
     post_instructions |-> <<>>,
     post_callbacks |-> <<>>]

\* macro open_orders_authority!, variant with an explicit bump
open_orders_authority(program, dex_program, market, authority, bump) ==
    <<"open-orders", dex_program, market, authority, <<bump>>>>

\* macro open_orders_init_authority!
open_orders_init_authority(program, dex_program, market, bump) ==
    <<"open-orders-init", dex_program, market, <<bump>>>>

\* result of a hook: the outcome and the Context and payload it leaves
HookResult(res, c, x) == [res |-> res, ctx |-> c, ix |-> x]

Abort(c, x) == HookResult("abort", c, x)

(***************************************************************************)
(* OpenOrdersPda.                                                          *)
(***************************************************************************)
prepare_pda(acc_info) == [acc_info EXCEPT !.is_signer = TRUE]

validate_init_accounts_first(accs) ==
    IF Len(accs) < 5 THEN "NotEnoughAccountKeys"
    ELSE IF ~At(accs, 0).is_signer THEN "MissingRequiredSignature"
    ELSE "Ok"

validate_init_accounts_custom(accs) ==
    IF Len(accs) < 5 THEN "NotEnoughAccountKeys"
    ELSE IF ~At(accs, 1).is_signer THEN "UnauthorizedUser"
    ELSE "Ok"

validate_init_accounts(accs) ==
    IF Len(accs) < 5 THEN "NotEnoughAccountKeys"
    ELSE IF ~At(accs, 1).is_signer THEN "MissingRequiredSignature"
    ELSE "Ok"

OpenOrdersPda_instruction_eager(self, buf) ==
    IF ~Has(buf, 2) THEN [res |-> "abort", self |-> self, data |-> buf]
    ELSE [res |-> "Ok",
          self |-> [self EXCEPT !.bump = At(buf, 1), !.bump_init = At(buf, 2)],
          data |-> From(buf, IF At(buf, 0) = 0 THEN 3 ELSE 1)]

\* OpenOrdersPda::instruction on the cursor `buf`: [res, self, data]
OpenOrdersPda_instruction(self, buf) ==
    IF ~Has(buf, 0) THEN [res |-> "abort", self |-> self, data |-> buf]
    ELSE LET disc == At(buf, 0)
             rest == From(buf, 1)
         IN  IF disc # 0 THEN [res |-> "Ok", self |-> self, data |-> rest]
             ELSE IF ~Has(rest, 1)
                  THEN [res |-> "abort", self |-> self, data |-> rest]
                  ELSE [res |-> "Ok",
                        self |-> [self EXCEPT !.bump = At(rest, 0),
                                              !.bump_init = At(rest, 1)],
                        data |-> From(rest, 2)]

OpenOrdersPda_init_open_orders(self, c, x) ==
    IF ~Has(c.accounts, 4) THEN Abort(c, x)
    ELSE LET market == At(c.accounts, 4)
             user == At(c.accounts, 3)
             remaining_accounts == From(c.accounts, 2)
             v == validate_init_accounts(remaining_accounts)
         IN  IF v # "Ok" THEN HookResult(v, c, x)
             ELSE LET seeds2 == c.seeds
                          \o <<open_orders_authority(c.program_id, c.dex_program_id,
                                                     market.key, user.key, self.bump)>>
                          \o <<open_orders_init_authority(c.program_id, c.dex_program_id,
                                                          market.key, self.bump_init)>>
                      a0 == From(c.accounts, 2)
                      a1 == IF Len(a0) > 1 THEN Put(a0, 1, prepare_pda(At(a0, 0))) ELSE a0
                      a2 == IF Len(a1) > 4
                            THEN Put(a1, 4, [At(a1, 4) EXCEPT !.is_signer = TRUE])
                            ELSE a1
                  IN  HookResult("Ok", [c EXCEPT !.seeds = seeds2, !.accounts = a2], x)

approve_amount_shifted(x, market) ==
    IF side(x) = "Bid"
    THEN [some |-> TRUE, value |-> max_native_pc_qty_including_fees(x)]
    ELSE LET coin_lot_idx == 5 + 42 * 8
             d == DataOf(market)
         IN  IF d.len < coin_lot_idx + 8 THEN [some |-> FALSE, value |-> <<>>]
             ELSE LET coin_lot_size == DataSlice(d, coin_lot_idx, coin_lot_idx + 8)
                  IN  checked_mul(max_coin_qty(x), coin_lot_size)

\* the amount of the approve built by new_order_v3: [some, value]; none is a panic
approve_amount(x, market) ==
    IF side(x) = "Bid"
    THEN [some |-> TRUE, value |-> max_native_pc_qty_including_fees(x)]
    ELSE LET coin_lot_idx == 5 + 43 * 8
             d == DataOf(market)
         IN  IF d.len < coin_lot_idx + 8 THEN [some |-> FALSE, value |-> <<>>]
             ELSE LET coin_lot_size == DataSlice(d, coin_lot_idx, coin_lot_idx + 8)
                  IN  checked_mul(max_coin_qty(x), coin_lot_size)

spl_token_approve_swapped(source, delegate, owner, amount) ==
    [program_id |-> "spl_token", name |-> "approve", source |-> source,
     delegate |-> owner, owner |-> delegate, amount |-> amount]

\* spl_token::instruction::approve and revoke, as instruction descriptors
spl_token_approve(source, delegate, owner, amount) ==
    [program_id |-> "spl_token", name |-> "approve", source |-> source,
     delegate |-> delegate, owner |-> owner, amount |-> amount]

spl_token_revoke(source, owner) ==
    [program_id |-> "spl_token", name |-> "revoke", source |-> source,
     delegate |-> source, owner |-> owner, amount |-> <<>>]

\* an entry of Context.pre_instructions / post_instructions
QueuedInstruction(instr, accs, seeds) == [ix |-> instr, accounts |-> accs, seeds |-> seeds]

OpenOrdersPda_new_order_v3(self, c, x) ==
    IF ~Has(c.accounts, 7) THEN Abort(c, x)
    ELSE LET user == At(c.accounts, 7)
         IN  IF ~user.is_signer THEN HookResult("UnauthorizedUser", c, x)
             ELSE LET market == At(c.accounts, 0)
                      open_orders == At(c.accounts, 1)
                      token_account_payer == At(c.accounts, 6)
                      amount == approve_amount(x, market)
                  IN  IF ~amount.some THEN Abort(c, x)
                      ELSE LET pre_instruction ==
                                   QueuedInstruction(
                                       spl_token_approve(token_account_payer.key,
                                                         open_orders.key, user.key,
                                                         amount.value),
                                       <<token_account_payer, open_orders, user>>, <<>>)
                               post_instruction ==
                                   QueuedInstruction(
                                       spl_token_revoke(token_account_payer.key, user.key),
                                       <<token_account_payer, user>>, <<>>)
                           IN  HookResult("Ok",
                                   [c EXCEPT
                                      !.pre_instructions = Append(@, pre_instruction),
                                      !.post_instructions = Append(@, post_instruction),
                                      !.seeds = Append(@,
                                          open_orders_authority(c.program_id,
                                              c.dex_program_id, market.key, user.key,
                                              self.bump)),
                                      !.accounts = Put(@, 7, prepare_pda(open_orders))],
                                   x)

OpenOrdersPda_cancel_order_v2_owner(self, c, x) ==
    IF ~Has(c.accounts, 4) THEN Abort(c, x)
    ELSE LET market == At(c.accounts, 0)
             user == At(c.accounts, 3)
         IN  IF ~user.is_signer THEN HookResult("UnauthorizedUser", c, x)
             ELSE HookResult("Ok",
                      [c EXCEPT
                         !.seeds = Append(@, open_orders_authority(c.program_id,
                                         c.dex_program_id, market.key, user.key, self.bump)),
                         !.accounts = Put(@, 4, prepare_pda(At(c.accounts, 3)))],
                      x)

OpenOrdersPda_cancel_order_v2(self, c, x) ==
    IF ~Has(c.accounts, 4) THEN Abort(c, x)
    ELSE LET market == At(c.accounts, 0)
             user == At(c.accounts, 4)
         IN  IF ~user.is_signer THEN HookResult("UnauthorizedUser", c, x)
             ELSE HookResult("Ok",
                      [c EXCEPT
                         !.seeds = Append(@, open_orders_authority(c.program_id,
                                         c.dex_program_id, market.key, user.key, self.bump)),
                         !.accounts = Put(@, 4, prepare_pda(At(c.accounts, 3)))],
                      x)

\* a variant that pushes the seed-path before it looks at the user
OpenOrdersPda_cancel_order_by_client_id_v2_pushing(self, c, x) ==
    IF ~Has(c.accounts, 4) THEN Abort(c, x)
    ELSE LET market == At(c.accounts, 0)
             user == At(c.accounts, 4)
             pushed == [c EXCEPT
                          !.seeds = Append(@, open_orders_authority(c.program_id,
                                          c.dex_program_id, market.key, user.key, self.bump))]
         IN  IF ~user.is_signer THEN HookResult("UnauthorizedUser", pushed, x)
             ELSE HookResult("Ok",
                      [pushed EXCEPT !.accounts = Put(@, 4, prepare_pda(At(c.accounts, 3)))],
                      x)

OpenOrdersPda_cancel_order_by_client_id_v2(self, c, x) ==
    IF ~Has(c.accounts, 4) THEN Abort(c, x)
    ELSE LET market == At(c.accounts, 0)
             user == At(c.accounts, 4)
         IN  IF ~user.is_signer THEN HookResult("UnauthorizedUser", c, x)
             ELSE HookResult("Ok",
                      [c EXCEPT
                         !.seeds = Append(@, open_orders_authority(c.program_id,
                                         c.dex_program_id, market.key, user.key, self.bump)),
                         !.accounts = Put(@, 4, prepare_pda(At(c.accounts, 3)))],
                      x)

OpenOrdersPda_settle_funds_unbacked(self, c, x) ==
    IF ~Has(c.accounts, 2) THEN Abort(c, x)
    ELSE LET user == At(c.accounts, 2)
         IN  IF ~user.is_signer THEN HookResult("UnauthorizedUser", c, x)
             ELSE HookResult("Ok",
                      [c EXCEPT !.accounts = Put(@, 2, prepare_pda(At(c.accounts, 1)))], x)

\* a variant that puts the signing account at position 9, where the referral is read
OpenOrdersPda_settle_funds_position9(self, c, x) ==
    IF ~Has(c.accounts, 9) THEN Abort(c, x)
    ELSE LET market == At(c.accounts, 0)
             user == At(c.accounts, 2)
         IN  IF ~user.is_signer THEN HookResult("UnauthorizedUser", c, x)
             ELSE HookResult("Ok",
                      [c EXCEPT
                         !.seeds = Append(@, open_orders_authority(c.program_id,
                                         c.dex_program_id, market.key, user.key, self.bump)),
                         !.accounts = Put(@, 9, prepare_pda(At(c.accounts, 1)))],
                      x)

OpenOrdersPda_settle_funds(self, c, x) ==
    IF ~Has(c.accounts, 2) THEN Abort(c, x)
    ELSE LET market == At(c.accounts, 0)
             user == At(c.accounts, 2)
         IN  IF ~user.is_signer THEN HookResult("UnauthorizedUser", c, x)
             ELSE HookResult("Ok",
                      [c EXCEPT
                         !.seeds = Append(@, open_orders_authority(c.program_id,
                                         c.dex_program_id, market.key, user.key, self.bump)),
                         !.accounts = Put(@, 2, prepare_pda(At(c.accounts, 1)))],
                      x)

OpenOrdersPda_close_open_orders_market0(self, c, x) ==
    IF ~Has(c.accounts, 3) THEN Abort(c, x)
    ELSE LET market == At(c.accounts, 0)
             user == At(c.accounts, 1)
         IN  IF ~user.is_signer THEN HookResult("UnauthorizedUser", c, x)
             ELSE HookResult("Ok",
                      [c EXCEPT
                         !.seeds = Append(@, open_orders_authority(c.program_id,
                                         c.dex_program_id, market.key, user.key, self.bump)),
                         !.accounts = Put(@, 1, prepare_pda(At(c.accounts, 0)))],
                      x)

OpenOrdersPda_close_open_orders(self, c, x) ==
    IF ~Has(c.accounts, 3) THEN Abort(c, x)
    ELSE LET market == At(c.accounts, 3)
             user == At(c.accounts, 1)
         IN  IF ~user.is_signer THEN HookResult("UnauthorizedUser", c, x)
             ELSE HookResult("Ok",
                      [c EXCEPT
                         !.seeds = Append(@, open_orders_authority(c.program_id,
                                         c.dex_program_id, market.key, user.key, self.bump)),
                         !.accounts = Put(@, 1, prepare_pda(At(c.accounts, 0)))],
                      x)

OpenOrdersPda_prune_signing(self, c, x) ==
    IF ~Has(c.accounts, 5) THEN Abort(c, x)
    ELSE HookResult("Ok", [c EXCEPT !.accounts = Put(@, 5, prepare_pda(At(c.accounts, 4)))], x)

OpenOrdersPda_prune(self, c, x) ==
    IF ~Has(c.accounts, 5) THEN Abort(c, x)
    ELSE HookResult("Ok", [c EXCEPT !.accounts = Put(@, 5, At(c.accounts, 4))], x)

\* the hook of OpenOrdersPda for operation op (the trait default for the others)
OpenOrdersPda_hook(self, op, c, x) ==
    CASE op = "InitOpenOrders" -> OpenOrdersPda_init_open_orders(self, c, x)
      [] op = "NewOrderV3" -> OpenOrdersPda_new_order_v3(self, c, x)
      [] op = "CancelOrderV2" -> OpenOrdersPda_cancel_order_v2(self, c, x)
      [] op = "CancelOrderByClientIdV2" -> OpenOrdersPda_cancel_order_by_client_id_v2(self, c, x)
      [] op = "SettleFunds" -> OpenOrdersPda_settle_funds(self, c, x)
      [] op = "CloseOpenOrders" -> OpenOrdersPda_close_open_orders(self, c, x)
      [] op = "Prune" -> OpenOrdersPda_prune(self, c, x)
      [] OTHER -> HookResult("Ok", c, x)

(***************************************************************************)
(* Logger: every hook logs and returns Ok.                                 *)
(***************************************************************************)
Logger_hook_marking(self, op, c, x) ==
    HookResult("Ok", [c EXCEPT !.seeds = Append(@, <<"logger">>)], x)

Logger_hook(self, op, c, x) == HookResult("Ok", c, x)

(***************************************************************************)
(* ReferralFees.                                                           *)
(***************************************************************************)
\* anchor_spl token::accessor::authority of a token account, a Result: the read
\* fails when the data of the account cannot be borrowed
token_accessor_authority(acc) ==
    IF acc.key # 10 THEN [ok |-> TRUE, value |-> "nobody"]
    ELSE IF token_owner.borrowed THEN [ok |-> FALSE, value |-> "AccountBorrowFailed"]
    ELSE [ok |-> TRUE, value |-> token_owner.authority]

ReferralFees_settle_funds_position8(self, c, x) ==
    IF ~Has(c.accounts, 8) THEN Abort(c, x)
    ELSE LET referral == token_accessor_authority(At(c.accounts, 8))
         IN  IF ~referral.ok THEN HookResult(referral.value, c, x)
             ELSE IF referral.value # self.referral THEN HookResult("InvalidReferral", c, x)
             ELSE HookResult("Ok", c, x)

ReferralFees_settle_funds(self, c, x) ==
    IF ~Has(c.accounts, 9) THEN Abort(c, x)
    ELSE LET referral == token_accessor_authority(At(c.accounts, 9))
         IN  IF ~referral.ok THEN HookResult(referral.value, c, x)
             ELSE IF referral.value # self.referral THEN HookResult("InvalidReferral", c, x)
             ELSE HookResult("Ok", c, x)

ReferralFees_hook(self, op, c, x) ==
    IF op = "SettleFunds" THEN ReferralFees_settle_funds(self, c, x)
    ELSE HookResult("Ok", c, x)

(***************************************************************************)
(* A middleware of the embedding program: any other implementation of the  *)
(* trait MarketMiddleware.  Each of its hooks returns Ok or an error and   *)
(* may use the Context as the trait allows: queue a pre-instruction, a     *)
(* post-instruction or post-callbacks, or edit a flag of the working list. *)
(***************************************************************************)
CustomEffects == {"none", "err", "pre", "post", "cb", "edit", "seed", "payload"}

Custom_hook(idx, effect, c, x) ==
    CASE effect = "err" -> HookResult("CustomError", c, x)
      [] effect = "pre" ->
            HookResult("Ok",
                [c EXCEPT !.pre_instructions = Append(@,
                    QueuedInstruction(
                        [program_id |-> "custom", name |-> "pre", source |-> idx,
                         delegate |-> idx, owner |-> idx, amount |-> <<>>],
                        <<>>, <<<<"custom", idx>>>>))], x)
      [] effect = "post" ->
            HookResult("Ok",
                [c EXCEPT !.post_instructions = Append(@,
                    QueuedInstruction(
                        [program_id |-> "custom", name |-> "post", source |-> idx,
                         delegate |-> idx, owner |-> idx, amount |-> <<>>],
                        <<>>, <<<<"custom", idx>>>>))], x)
      [] effect = "cb" ->
            HookResult("Ok",
                [c EXCEPT !.post_callbacks = @ \o
                    <<[function |-> "callback", accounts |-> <<>>, args |-> <<idx, 1>>],
                      [function |-> "callback", accounts |-> <<>>, args |-> <<idx, 2>>]>>], x)
      [] effect = "edit" /\ Has(c.accounts, 0) ->
            HookResult("Ok",
                [c EXCEPT !.accounts =
                    Put(@, 0, [At(c.accounts, 0) EXCEPT !.is_writable = ~@])], x)
      [] effect = "seed" ->
            HookResult("Ok",
                [c EXCEPT !.seeds = Append(@, IF c.seeds = <<>> THEN <<"custom", idx>>
                                              ELSE c.seeds[Len(c.seeds)])], x)
      [] effect = "payload" /\ x.payload # <<>> ->
            HookResult("Ok", c,
                [x EXCEPT !.payload[Len(x.payload)] = (@ + 1) % 256])
      [] OTHER -> HookResult("Ok", c, x)

(***************************************************************************)
(* Dispatch over the trait object (dyn MarketMiddleware).                  *)
(***************************************************************************)
MwKinds == {"OpenOrdersPda", "Logger", "ReferralFees", "Custom"}

\* the choices a hook of this middleware has
HookEffects(mw) == IF mw.kind = "Custom" THEN CustomEffects ELSE {"none"}

InstructionEffects(mw) == IF mw.kind = "Custom" THEN {"none", "err"} ELSE {"none"}

FallbackEffects(mw) == IF mw.kind = "Custom" THEN {"none", "err", "pre"} ELSE {"none"}

\* mw.instruction(&mut ix_data): [res, self, data]
mw_instruction(mw, effect, buf) ==
    IF mw.kind = "OpenOrdersPda" THEN OpenOrdersPda_instruction(mw, buf)
    ELSE IF mw.kind = "Custom" /\ effect = "err"
         THEN [res |-> "CustomError", self |-> mw, data |-> buf]
         ELSE [res |-> "Ok", self |-> mw, data |-> buf]

\* the hook of mw for operation op
mw_hook(mw, idx, effect, op, c, x) ==
    CASE mw.kind = "OpenOrdersPda" -> OpenOrdersPda_hook(mw, op, c, x)
      [] mw.kind = "Logger" -> Logger_hook(mw, op, c, x)
      [] mw.kind = "ReferralFees" -> ReferralFees_hook(mw, op, c, x)
      [] mw.kind = "Custom" -> Custom_hook(idx, effect, c, x)

\* the loop of a match arm of run over a chain whose hooks have no choice (the
\* middlewares of the crate): the result of the first hook that fails, or Ok with the
\* Context and payload the last hook left
RECURSIVE run_hooks(_, _, _, _, _)
run_hooks(mws, k, op, c, x) ==
    IF k > Len(mws) THEN HookResult("Ok", c, x)
    ELSE LET r == mw_hook(mws[k], k, "none", op, c, x)
         IN  IF r.res # "Ok" THEN r ELSE run_hooks(mws, k + 1, op, r.ctx, r.ix)

\* mw.fallback(&mut ctx): the trait default for the three middlewares of the crate
mw_fallback(mw, idx, effect, c, x) ==
    IF mw.kind = "Custom" THEN Custom_hook(idx, effect, c, x)
    ELSE HookResult("Ok", c, x)

MinAccounts_settle9(op) ==
    CASE op = "InitOpenOrders" -> 4
      [] op = "NewOrderV3" -> 12
      [] op = "CancelOrderV2" -> 6
      [] op = "CancelOrderByClientIdV2" -> 6
      [] op = "SettleFunds" -> 9
      [] op = "CloseOpenOrders" -> 4
      [] op = "ConsumeEvents" -> 4
      [] op = "ConsumeEventsPermissioned" -> 3
      [] op = "Prune" -> 7

\* the minimum length of the working list for each operation (match arms of run)
MinAccounts(op) ==
    CASE op = "InitOpenOrders" -> 4
      [] op = "NewOrderV3" -> 12
      [] op = "CancelOrderV2" -> 6
      [] op = "CancelOrderByClientIdV2" -> 6
      [] op = "SettleFunds" -> 10
      [] op = "CloseOpenOrders" -> 4
      [] op = "ConsumeEvents" -> 4
      [] op = "ConsumeEventsPermissioned" -> 3
      [] op = "Prune" -> 7

(***************************************************************************)
(* History.                                                                *)
(***************************************************************************)
Call(ev, idx, arg) == [ev |-> ev, idx |-> idx, arg |-> arg]

\* the caller supplied the account with this identity as a signer
SuppliedSigner(key) == \E k \in 1..Len(accounts) : accounts[k].key = key /\ accounts[k].is_signer

\* identities that carry a signer flag the caller did not supply
LocalSignerKeys(c) ==
    {a.key : a \in {b \in Range(c.accounts) : b.is_signer /\ ~SuppliedSigner(b.key)}}

\* what a hook call that led from c to c2 adds to local_signers
NewLocalSigners(idx, c, c2) ==
    LET pushed == IF Len(c2.seeds) >= Len(c.seeds)
                  THEN SubSeq(c2.seeds, Len(c.seeds) + 1, Len(c2.seeds)) ELSE <<>>
    IN  {[key |-> k, hook |-> idx, seeds |-> pushed] :
            k \in LocalSignerKeys(c2) \ LocalSignerKeys(c)}

(***************************************************************************)
(* Inputs of an invocation.                                                *)
(***************************************************************************)
Chains ==
    {s \in UNION {[1..k -> MwKinds] : k \in 0..MaxChain} :
        \A a, b \in 1..Len(s) : a # b => s[a] # s[b]}

\* OpenOrdersPda::new, Logger, ReferralFees::new(referral)
NewMiddleware(kind) == [kind |-> kind, bump |-> 0, bump_init |-> 0, referral |-> "referral"]

SignerSets == {{}, 0..MaxAccounts, {4, 8}, {2, 5}, {3}}

SuppliedAccounts(n, signers, dexFirst) ==
    [k \in 1..n |->
        IF k = 1
        THEN AccountInfo(IF dexFirst THEN SERUM_DEX_PROGRAM_ID ELSE SERUM_DEX_PROGRAM_ID - 1,
                         0 \in signers, FALSE)
        ELSE AccountInfo(k - 1, (k - 1) \in signers, (k % 2) = 0)]

Instr(op, payload) == [op |-> op, payload |-> payload]

Orders ==
    {Instr("NewOrderV3", <<0>> \o U64(3) \o U64(5)),
     Instr("NewOrderV3", <<0>> \o U64(3) \o U64Max),
     Instr("NewOrderV3", <<1>> \o U64(3) \o U64(5)),
     Instr("NewOrderV3", <<1>> \o U64Pow(4) \o U64(5))}

Instructions ==
    Orders \cup
    {Instr("InitOpenOrders", <<>>), Instr("SettleFunds", <<>>),
     Instr("CloseOpenOrders", <<>>), Instr("CancelOrderV2", <<0, 9>>),
     Instr("CancelOrderByClientIdV2", U64(7)), Instr("ConsumeEvents", <<4, 0>>),
     Instr("ConsumeEventsPermissioned", <<4, 0>>), Instr("Prune", <<4, 0>>)}

\* buffers no operation decodes from
Malformed == {<<>>, <<0>>, <<0, 7>>, <<99>>, <<10, 0>>, <<15, 1>>}

DexData == {pack(x) : x \in Instructions} \cup Malformed

\* the raw buffers handed to a chain: the DEX data, behind the prefix OpenOrdersPda
\* strips when it is registered ([1] or [0, bump, bump_init]), or a malformed buffer
Buffers(chain) ==
    IF "OpenOrdersPda" \in Range(chain)
    THEN {<<prefix, dex>> : prefix \in {<<1>>, <<0, 7, 9>>}, dex \in DexData}
         \cup {<<<<>>, dex>> : dex \in Malformed}
    ELSE {<<<<>>, dex>> : dex \in DexData}

DefaultMarket == [len |-> 5 + 43 * 8 + 8, lot |-> U64(2), fill |-> 0]

MarketDatas(chain, dex) ==
    IF "OpenOrdersPda" \in Range(chain) /\ Len(dex) > 1 /\ dex[1] = 10 /\ dex[2] = 1
    THEN {[len |-> l, lot |-> lot, fill |-> f] :
            l \in {5 + 43 * 8 + 7, 5 + 43 * 8 + 8},
            lot \in {U64(2), U64(256 + 1), U64Pow(4)},
            f \in {0, 255}}
    ELSE {DefaultMarket}

TokenAccount(authority, borrowed) == [authority |-> authority, borrowed |-> borrowed]

\* the token accounts settle-funds is tried with (no other operation reads the account)
TokenOwners(chain, dex) ==
    IF "ReferralFees" \in Range(chain) /\ dex = pack(Instr("SettleFunds", <<>>))
    THEN {TokenAccount("referral", FALSE), TokenAccount("other", FALSE),
          TokenAccount("referral", TRUE)}
    ELSE {TokenAccount("referral", FALSE)}

Init ==
    \E chain \in Chains, n \in 0..MaxAccounts, signers \in SignerSets :
    \E dexFirst \in (IF signers = {} THEN BOOLEAN ELSE {TRUE}), buf \in Buffers(chain) :
    \E md \in MarketDatas(chain, buf[2]), owner \in TokenOwners(chain, buf[2]) :
        /\ middlewares = [k \in 1..Len(chain) |-> NewMiddleware(chain[k])]
        /\ accounts = SuppliedAccounts(n, signers, dexFirst)
        /\ market_data = md
        /\ token_owner = owner
        /\ data = buf[1] \o buf[2]
        /\ ix_data = buf[1] \o buf[2]
        /\ acc_infos = <<>>
        /\ ctx = Context_new("program_id", SERUM_DEX_PROGRAM_ID, <<>>)
        /\ ix = None
        /\ pc = "start"
        /\ i = 1
        /\ result = "running"
        /\ calls = <<>>
        /\ handed = <<>>
        /\ outcomes = <<>>
        /\ cpis = <<>>
        /\ local_signers = {}

(***************************************************************************)
(* MarketProxy::run, step by step.                                         *)
(***************************************************************************)
\* leave run with this outcome
Finish(res) == pc' = "done" /\ result' = res /\ i' = i

\* lines 50-55: the first account is the DEX executable
ValidateTarget ==
    /\ pc = "start"
    /\ IF ~Has(accounts, 0)
       THEN Finish("abort") /\ acc_infos' = acc_infos
       ELSE IF At(accounts, 0).key # SERUM_DEX_PROGRAM_ID
            THEN Finish("InvalidTargetProgram") /\ acc_infos' = acc_infos
            ELSE /\ acc_infos' = From(accounts, 1)
                 /\ pc' = "instruction" /\ i' = 1 /\ result' = result
    /\ UNCHANGED <<handed, middlewares, accounts, market_data, token_owner, data, ix_data,
                   ctx, ix,
                   calls, outcomes, cpis, local_signers>>

\* lines 57-60: one pre-parse hook
Instruction ==
    /\ pc = "instruction" /\ i <= Len(middlewares)
    /\ \E effect \in InstructionEffects(middlewares[i]) :
          LET r == mw_instruction(middlewares[i], effect, ix_data)
          IN  /\ middlewares' = [middlewares EXCEPT ![i] = r.self]
              /\ ix_data' = r.data
              /\ calls' = Append(calls, Call("instruction", i, ix_data))
              /\ outcomes' = Append(outcomes, r.res)
              /\ IF r.res = "Ok"
                 THEN pc' = pc /\ i' = i + 1 /\ result' = result
                 ELSE Finish(r.res)
    /\ UNCHANGED <<handed, accounts, market_data, token_owner, data, acc_infos, ctx, ix,
                   cpis,
                   local_signers>>

\* line 66: the buffer handed to MarketInstruction::unpack
decode_input_stale == data

decode_input == ix_data

\* lines 62-73 (and the head of each match arm): context, decoding, minimum count
Dispatch ==
    /\ pc = "instruction" /\ i > Len(middlewares)
    /\ ctx' = Context_new("program_id", At(accounts, 0).key, acc_infos)
    /\ ix' = unpack(decode_input)
    /\ calls' = Append(calls, Call("unpack", 0, decode_input))
    /\ IF ix' = None
       THEN pc' = "fallback" /\ i' = 1 /\ result' = result
       ELSE IF Len(acc_infos) < MinAccounts(ix'.op)
            THEN Finish("NotEnoughAccounts")
            ELSE pc' = "dispatch" /\ i' = 1 /\ result' = result
    /\ outcomes' = Append(outcomes, IF pc' = "done" THEN result' ELSE "Ok")
    /\ UNCHANGED <<handed, middlewares, accounts, market_data, token_owner, data, ix_data,
                   acc_infos,
                   cpis, local_signers>>

hook_context_fresh == Context_new("program_id", At(accounts, 0).key, acc_infos)

\* the &mut ctx handed to each operation hook
hook_context == ctx

\* one operation hook of the match arm of ix
Hook ==
    /\ pc = "dispatch" /\ i <= Len(middlewares)
    /\ \E effect \in HookEffects(middlewares[i]) :
          LET r == mw_hook(middlewares[i], i, effect, ix.op, hook_context, ix)
          IN  /\ ctx' = r.ctx
              /\ ix' = r.ix
              /\ handed' = Append(handed, [given |-> <<hook_context, ix>>,
                                           left |-> <<r.ctx, r.ix>>])
              /\ calls' = Append(calls, Call("hook", i, ix.payload))
              /\ outcomes' = Append(outcomes, r.res)
              /\ local_signers' = local_signers \cup NewLocalSigners(i, ctx, r.ctx)
              /\ IF r.res = "Ok"
                 THEN pc' = pc /\ i' = i + 1 /\ result' = result
                 ELSE Finish(r.res)
    /\ UNCHANGED <<middlewares, accounts, market_data, token_owner, data, ix_data, acc_infos,
                   cpis>>

\* lines 142-145: one fallback hook
Fallback ==
    /\ pc = "fallback" /\ i <= Len(middlewares)
    /\ \E effect \in FallbackEffects(middlewares[i]) :
          LET r == mw_fallback(middlewares[i], i, effect, ctx, ix)
          IN  /\ ctx' = r.ctx
              /\ calls' = Append(calls, Call("fallback", i, <<>>))
              /\ outcomes' = Append(outcomes, r.res)
              /\ local_signers' = local_signers \cup NewLocalSigners(i, ctx, r.ctx)
              /\ IF r.res = "Ok"
                 THEN pc' = pc /\ i' = i + 1 /\ result' = result
                 ELSE Finish(r.res)
    /\ UNCHANGED <<handed, middlewares, accounts, market_data, token_owner, data, ix_data,
                   acc_infos,
                   ix, cpis>>

FallbackReturn_rejecting ==
    /\ pc = "fallback" /\ i > Len(middlewares)
    /\ Finish("InvalidInstruction")
    /\ UNCHANGED <<handed, middlewares, accounts, market_data, token_owner, data, ix_data,
                   acc_infos,
                   ctx, ix, calls, outcomes, cpis, local_signers>>

FallbackReturn_relaying ==
    /\ pc = "fallback" /\ i > Len(middlewares)
    /\ pc' = "exec" /\ i' = 1
    /\ UNCHANGED <<handed, middlewares, accounts, market_data, token_owner, data, ix_data,
                   acc_infos, ctx, ix, result, calls, outcomes, cpis, local_signers>>

\* line 146: return Ok(()) with no relay
FallbackReturn ==
    /\ pc = "fallback" /\ i > Len(middlewares)
    /\ Finish("Ok")
    /\ UNCHANGED <<handed, middlewares, accounts, market_data, token_owner, data, ix_data,
                   acc_infos,
                   ctx, ix, calls, outcomes, cpis, local_signers>>

Extract_keeping ==
    /\ pc = "dispatch" /\ i > Len(middlewares)
    /\ ix_data' = ix_data
    /\ pc' = "exec" /\ i' = 1
    /\ UNCHANGED <<handed, middlewares, accounts, market_data, token_owner, data,
                   acc_infos, ctx, ix, result, calls, outcomes, cpis, local_signers>>

\* lines 150-161: re-encode the instruction, take the context apart
Extract ==
    /\ pc = "dispatch" /\ i > Len(middlewares)
    /\ ix_data' = pack(ix)
    /\ pc' = "exec" /\ i' = 1
    /\ UNCHANGED <<handed, middlewares, accounts, market_data, token_owner, data, acc_infos,
                   ctx, ix,
                   result, calls, outcomes, cpis, local_signers>>

\* positions of the straight-line tail of run: pre-instructions, relay,
\* post-instructions, post-callbacks
RelayAt == Len(ctx.pre_instructions) + 1

PostEnd == RelayAt + Len(ctx.post_instructions)

CallbackEnd == PostEnd + Len(ctx.post_callbacks)

\* program::invoke_signed(ix, accounts, signers)
Invocation(kind, instr, accs, signers) ==
    [kind |-> kind, ix |-> instr, accounts |-> accs, signers |-> signers]

Called_swallowing(ok, err) == pc' = pc /\ i' = i + 1 /\ result' = result

\* lines 178-185: Context.seeds as the signer seeds of invoke_signed
signer_seeds_dedup(seeds) ==
    LET keep == SelectSeq([k \in 1..Len(seeds) |-> k],
                          LAMBDA k : \A j \in 1..(k - 1) : seeds[j] # seeds[k])
    IN  [n \in 1..Len(keep) |-> seeds[keep[n]]]

signer_seeds(seeds) ==
    [k \in 1..Len(seeds) |-> [j \in 1..Len(seeds[k]) |-> seeds[k][j]]]

instruction_signers_global(q) == signer_seeds(ctx.seeds)

\* lines 164-172 and 205-213: the signer seeds of a queued instruction
instruction_signers(q) == signer_seeds(q.seeds)

\* the outcome of an external call is the callee's
Called(ok, err) ==
    IF ok THEN pc' = pc /\ i' = i + 1 /\ result' = result ELSE Finish(err)

\* line 164: the k-th pre-instruction taken by the for loop
pre_instruction_popped(k) == ctx.pre_instructions[Len(ctx.pre_instructions) - k + 1]

pre_instruction_at(k) == ctx.pre_instructions[k]

\* lines 163-174
PreInstruction ==
    /\ pc = "exec" /\ i < RelayAt
    /\ LET q == pre_instruction_at(i)
       IN  cpis' = Append(cpis, Invocation("pre", q.ix, q.accounts, instruction_signers(q)))
    /\ calls' = Append(calls, Call("pre", i, <<>>))
    /\ \E ok \in BOOLEAN :
          /\ Called(ok, "CpiError")
          /\ outcomes' = Append(outcomes, IF ok THEN "Ok" ELSE "CpiError")
    /\ UNCHANGED <<handed, middlewares, accounts, market_data, token_owner, data, ix_data,
                   acc_infos,
                   ctx, ix, local_signers>>

\* the AccountMeta list of the relay
AccountMetas(accs) ==
    [k \in 1..Len(accs) |->
        [pubkey |-> accs[k].key, is_signer |-> accs[k].is_signer,
         is_writable |-> accs[k].is_writable]]

\* lines 176-202
Relay ==
    /\ pc = "exec" /\ i = RelayAt
    /\ cpis' = Append(cpis,
                  Invocation("relay",
                             [program_id |-> SERUM_DEX_PROGRAM_ID, data |-> ix_data,
                              accounts |-> AccountMetas(ctx.accounts)],
                             ctx.accounts, signer_seeds(ctx.seeds)))
    /\ calls' = Append(calls, Call("relay", 0, <<>>))
    /\ \E ok \in BOOLEAN :
          /\ Called(ok, "CpiError")
          /\ outcomes' = Append(outcomes, IF ok THEN "Ok" ELSE "CpiError")
    /\ UNCHANGED <<handed, middlewares, accounts, market_data, token_owner, data, ix_data,
                   acc_infos,
                   ctx, ix, local_signers>>

\* lines 204-215
PostInstruction ==
    /\ pc = "exec" /\ i > RelayAt /\ i <= PostEnd
    /\ LET q == ctx.post_instructions[i - RelayAt]
       IN  cpis' = Append(cpis, Invocation("post", q.ix, q.accounts, instruction_signers(q)))
    /\ calls' = Append(calls, Call("post", i - RelayAt, <<>>))
    /\ \E ok \in BOOLEAN :
          /\ Called(ok, "CpiError")
          /\ outcomes' = Append(outcomes, IF ok THEN "Ok" ELSE "CpiError")
    /\ UNCHANGED <<handed, middlewares, accounts, market_data, token_owner, data, ix_data,
                   acc_infos,
                   ctx, ix, local_signers>>

\* lines 217-220
PostCallback ==
    /\ pc = "exec" /\ i > PostEnd /\ i <= CallbackEnd
    /\ calls' = Append(calls, Call("callback", i - PostEnd, ix_data))
    /\ \E ok \in BOOLEAN :
          /\ Called(ok, "CallbackError")
          /\ outcomes' = Append(outcomes, IF ok THEN "Ok" ELSE "CallbackError")
    /\ UNCHANGED <<handed, middlewares, accounts, market_data, token_owner, data, ix_data,
                   acc_infos,
                   ctx, ix, cpis, local_signers>>

\* line 222
Return ==
    /\ pc = "exec" /\ i > CallbackEnd
    /\ Finish("Ok")
    /\ UNCHANGED <<handed, middlewares, accounts, market_data, token_owner, data, ix_data,
                   acc_infos,
                   ctx, ix, calls, outcomes, cpis, local_signers>>

Next ==
    \/ ValidateTarget
    \/ Instruction
    \/ Dispatch
    \/ Hook
    \/ Fallback
    \/ FallbackReturn
    \/ Extract
    \/ PreInstruction
    \/ Relay
    \/ PostInstruction
    \/ PostCallback
    \/ Return

Spec == Init /\ [][Next]_vars

\* the invocations termination is checked on: every chain, with no account, too few
\* accounts or enough accounts for every operation, all of them signers, and every
\* operation (of the orders, the bids), or a buffer nothing decodes from
InitLive ==
    /\ Init
    /\ Len(accounts) \in {0, 5, 13}
    /\ \A k \in 1..Len(accounts) : accounts[k].is_signer
    /\ market_data = DefaultMarket
    /\ ~token_owner.borrowed
    /\ \E prefix \in {<<>>, <<0, 7, 9>>} :
       \E dex \in {pack(x) : x \in (Instructions \ {y \in Orders : side(y) = "Ask"})} \cup {<<99>>, <<>>} :
           data = prefix \o dex

\* run is straight-line code on one thread: a step that can be taken is taken
FairSpec == InitLive /\ [][Next]_vars /\ WF_vars(Next)

(***************************************************************************)
(* Reading the history.                                                    *)
(***************************************************************************)
Iota(n) == [k \in 1..n |-> k]

IsPrefix(a, b) == Len(a) <= Len(b) /\ a = SubSeq(b, 1, Len(a))

EventsOf(evs) == SelectSeq(calls, LAMBDA c : c.ev \in evs)

EventIdx(ev) == LET s == EventsOf({ev}) IN [k \in 1..Len(s) |-> s[k].idx]

Decoded == EventsOf({"unpack"}) # <<>>

Unrecognized == Decoded /\ ix = None

Recognized == Decoded /\ ix # None

ExternalCalls ==
    LET s == EventsOf({"pre", "relay", "post", "callback"})
    IN  [k \in 1..Len(s) |-> <<s[k].ev, s[k].idx>>]

HasKind(kind) == \E k \in 1..Len(middlewares) : middlewares[k].kind = kind

PassedTarget == Has(accounts, 0) /\ At(accounts, 0).key = SERUM_DEX_PROGRAM_ID

(***************************************************************************)
(* C1.  Fallback path.                                                     *)
(***************************************************************************)
\* C1 as stated: for every buffer that decodes to "unrecognized", run invokes every
\* registered middleware's fallback hook exactly once in registration order, makes
\* no external call and runs no callback, and reports success.
C1_AsStated ==
    (pc = "done" /\ Unrecognized) =>
        /\ EventIdx("fallback") = Iota(Len(middlewares))
        /\ ExternalCalls = <<>> /\ cpis = <<>>
        /\ result = "Ok"

\* C1, amended: on a buffer that decodes to "unrecognized" the fallback hooks are
\* invoked in registration order, each at most once, up to the first one that returns
\* an error, and that error is the outcome; when none returns an error (the hooks of
\* OpenOrdersPda, Logger and ReferralFees never do) every hook is invoked exactly once
\* and the invocation reports success; in both cases there is no pre-instruction, no
\* main relay, no post-instruction, no post-callback and no operation hook.
C1_FallbackPath ==
    Unrecognized =>
        LET f == EventIdx("fallback")
        IN  /\ Len(f) <= Len(middlewares) /\ f = Iota(Len(f))
            /\ ExternalCalls = <<>> /\ cpis = <<>>
            /\ EventIdx("hook") = <<>>
            /\ pc = "done" =>
                  \/ result = "Ok" /\ f = Iota(Len(middlewares))
                  \/ /\ result = "CustomError"
                     /\ f # <<>>
                     /\ calls[Len(calls)].ev = "fallback"
                     /\ middlewares[f[Len(f)]].kind = "Custom"
            /\ (pc = "done" /\ ~HasKind("Custom")) => result = "Ok"

C1_Witness ==
    /\ pc = "done" /\ Unrecognized /\ result = "Ok"
    /\ Len(middlewares) = 2 /\ HasKind("Custom")
    /\ EventIdx("fallback") = <<1, 2>>
    /\ ctx.pre_instructions # <<>>

(***************************************************************************)
(* C2.  Minimum account counts.                                            *)
(***************************************************************************)
ClaimedMinimum(op) ==
    CASE op = "InitOpenOrders" -> 4
      [] op = "NewOrderV3" -> 12
      [] op \in {"CancelOrderV2", "CancelOrderByClientIdV2"} -> 6
      [] op = "SettleFunds" -> 10
      [] op \in {"CloseOpenOrders", "ConsumeEvents"} -> 4
      [] op = "ConsumeEventsPermissioned" -> 3
      [] op = "Prune" -> 7

\* C2: for every recognized operation run fails with NotEnoughAccounts, before any
\* operation hook is invoked, if and only if the working list (the supplied accounts
\* without the leading one) is shorter than the operation's minimum; a list of exactly
\* the minimum length passes and the hooks are invoked.
C2_MinimumCount ==
    Recognized =>
        IF Len(acc_infos) < ClaimedMinimum(ix.op)
        THEN /\ pc = "done" /\ result = "NotEnoughAccounts"
             /\ EventIdx("hook") = <<>> /\ ExternalCalls = <<>>
        ELSE /\ result # "NotEnoughAccounts"
             /\ \/ Len(middlewares) = 0
                \/ pc = "dispatch" /\ i = 1
                \/ EventIdx("hook") # <<>>

C2_Witness ==
    /\ Recognized /\ ix.op = "SettleFunds"
    /\ Len(acc_infos) = ClaimedMinimum(ix.op)
    /\ EventIdx("hook") = <<1, 2>>

(***************************************************************************)
(* C3.  Pre-parse hooks.                                                   *)
(***************************************************************************)
\* C3 as stated: in every invocation that passes target validation each registered
\* middleware's pre-parse hook is invoked exactly once, in registration order.
C3_AsStated ==
    (pc = "done" /\ PassedTarget /\ result # "abort") =>
        EventIdx("instruction") = Iota(Len(middlewares))

\* what a pre-parse hook of this kind leaves of the buffer it is given
LeftBy(kind, buf) ==
    IF kind = "OpenOrdersPda" THEN From(buf, IF At(buf, 0) = 0 THEN 3 ELSE 1) ELSE buf

\* C3, amended: in every invocation that passes target validation the pre-parse hooks
\* are invoked in registration order, each at most once, before the buffer is decoded
\* and before any operation or fallback hook; a hook that fails ends the invocation, so
\* the later hooks and the decoder do not run; whenever the buffer is decoded every
\* registered hook has been invoked exactly once; each hook receives the buffer as left
\* by the previous hook and the decoder only the bytes left after all hooks.
C3_PreParse ==
    LET p == EventIdx("instruction")
    IN  /\ Len(p) <= Len(middlewares) /\ p = Iota(Len(p))
        /\ \A k \in 1..Len(calls) :
              calls[k].ev = "instruction" =>
                 /\ \A j \in 1..k : calls[j].ev = "instruction"
                 /\ k = 1 => calls[k].arg = data
                 /\ (k < Len(calls) /\ calls[k + 1].ev \in {"instruction", "unpack"}) =>
                       calls[k + 1].arg = LeftBy(middlewares[calls[k].idx].kind, calls[k].arg)
        /\ Decoded =>
              /\ p = Iota(Len(middlewares))
              /\ calls[Len(p) + 1].ev = "unpack"
              /\ Len(p) = 0 => calls[1].arg = data
              /\ (pc \in {"dispatch", "fallback"} /\ i = 1) => ix = unpack(calls[Len(p) + 1].arg)
        /\ (~Decoded /\ pc = "done" /\ PassedTarget) =>
              /\ p # <<>>
              /\ result \in {"CustomError", "abort"}

C3_Witness ==
    /\ Decoded /\ Recognized
    /\ EventIdx("instruction") = <<1, 2>>
    /\ middlewares[1].kind = "OpenOrdersPda"
    /\ calls[1].arg # calls[3].arg
    /\ Len(calls[3].arg) = Len(data) - 3

(***************************************************************************)
(* C4.  Order of the nested external calls.                                *)
(***************************************************************************)
\* the calls a successful dispatch makes, from the queues the hooks left
ExpectedCalls ==
    [k \in 1..Len(ctx.pre_instructions) |-> <<"pre", k>>]
    \o <<<<"relay", 0>>>>
    \o [k \in 1..Len(ctx.post_instructions) |-> <<"post", k>>]
    \o [k \in 1..Len(ctx.post_callbacks) |-> <<"callback", k>>]

\* C4: the nested external calls of a dispatched operation happen in this order with
\* no interleaving: the queued pre-instructions in the order they were appended, the
\* single main relay, the queued post-instructions in the order they were appended,
\* the post-callbacks in the order they were appended; a successful invocation makes
\* all of them.
C4_CallOrder ==
    Recognized =>
        LET np == Len(ctx.pre_instructions)
        IN  /\ IsPrefix(ExternalCalls, ExpectedCalls)
            /\ (pc = "done" /\ result = "Ok") => ExternalCalls = ExpectedCalls
            /\ Len(cpis) <= np + 1 + Len(ctx.post_instructions)
            /\ \A k \in 1..Len(cpis) :
                  IF k <= np
                  THEN /\ cpis[k].kind = "pre"
                       /\ cpis[k].ix = ctx.pre_instructions[k].ix
                  ELSE IF k = np + 1
                       THEN cpis[k].kind = "relay"
                       ELSE /\ cpis[k].kind = "post"
                            /\ cpis[k].ix = ctx.post_instructions[k - np - 1].ix

C4_Witness ==
    /\ pc = "done" /\ result = "Ok" /\ Recognized
    /\ Len(ctx.pre_instructions) = 2
    /\ ctx.pre_instructions[1].ix.name = "approve"
    /\ ctx.pre_instructions[2].ix.name = "pre"
    /\ Len(ctx.post_instructions) = 1
    /\ ExternalCalls = <<<<"pre", 1>>, <<"pre", 2>>, <<"relay", 0>>, <<"post", 1>>>>

(***************************************************************************)
(* C5, C6.  OpenOrdersPda::init_open_orders.                               *)
(***************************************************************************)
\* the next step is the hook of this middleware kind for this operation
HookStep(kind, op) ==
    /\ pc = "dispatch" /\ i <= Len(middlewares)
    /\ middlewares[i].kind = kind
    /\ ix.op = op
    /\ calls' # calls

HookSucceeded == pc' = "dispatch" /\ i' = i + 1 /\ result' = "running"

\* what C5 promises of a successful initialize-account hook
InitEffect ==
    /\ HookSucceeded
    /\ Len(ctx'.seeds) = Len(ctx.seeds) + 2
    /\ SubSeq(ctx'.seeds, 1, Len(ctx.seeds)) = ctx.seeds
    /\ ctx'.seeds[Len(ctx.seeds) + 1][1] = "open-orders"
    /\ ctx'.seeds[Len(ctx.seeds) + 2][1] = "open-orders-init"
    /\ Len(ctx'.accounts) = Len(ctx.accounts) - 2
    /\ At(ctx'.accounts, 0) = At(ctx.accounts, 2)
    /\ \A k \in 0..(Len(ctx'.accounts) - 1) :
          k # 1 => At(ctx'.accounts, k).key = At(ctx.accounts, k + 2).key

\* C5 as stated: with at least 5 working accounts and the account at position 3 a
\* signer, the initialize-account hook of OpenOrdersPda succeeds, appends the authority
\* and the init-authority seed-path and drops the two leading accounts.
C5_AsStated ==
    [][(HookStep("OpenOrdersPda", "InitOpenOrders")
          /\ Len(ctx.accounts) >= 5 /\ At(ctx.accounts, 3).is_signer) => InitEffect]_vars

\* C5, amended: with at least 7 working accounts (5 after the two leading accounts are
\* set aside) and the account at position 3 a signer, the initialize-account hook of
\* OpenOrdersPda succeeds, appends exactly two seed-paths (authority, then
\* init-authority) and drops the two leading accounts of the working list.
C5_InitSucceeds ==
    [][(HookStep("OpenOrdersPda", "InitOpenOrders")
          /\ Len(ctx.accounts) >= 7 /\ At(ctx.accounts, 3).is_signer) => InitEffect]_vars

C5_Witness ==
    /\ Recognized /\ ix.op = "InitOpenOrders"
    /\ Len(middlewares) = 1 /\ middlewares[1].kind = "OpenOrdersPda"
    /\ EventIdx("hook") = <<1>> /\ pc = "dispatch"
    /\ Len(acc_infos) = 7 /\ At(acc_infos, 3).is_signer /\ ~At(acc_infos, 2).is_signer
    /\ Len(ctx.accounts) = 5 /\ Len(ctx.seeds) = 2

HookPassed(k) ==
    \E j \in 1..Len(calls) :
        /\ calls[j].ev = "hook" /\ calls[j].idx = k
        /\ j < Len(calls) \/ pc # "done"

\* the value of a u64 below 2^24
Small(a) == \A k \in 4..8 : a[k] = 0

ToNat(a) == a[1] + 256 * a[2] + 65536 * a[3]

\* a * 2^32 for a below 2^32
Shift32(a) == <<0, 0, 0, 0, a[1], a[2], a[3], a[4]>>

\* amount = q * lot, said without the multiplication of the code
IsProduct(amount, q, lot) ==
    /\ (Small(q) /\ Small(lot)) => (Small(amount) /\ ToNat(amount) = ToNat(q) * ToNat(lot))
    /\ (q = U64Pow(4) /\ Small(lot)) => amount = Shift32(lot)
    /\ (lot = U64Pow(4) /\ Small(q)) => amount = Shift32(q)
    /\ Small(q) \/ q = U64Pow(4)
    /\ Small(lot) \/ lot = U64Pow(4)
    /\ Small(q) \/ Small(lot)

Approves == SelectSeq(ctx.pre_instructions, LAMBDA q : q.ix.name = "approve")

\* bytes 349..356 of the data of the market account (working position 0)
LotBytes == [k \in 1..8 |-> DataByteAt(market_data, 5 + 43 * 8 + k - 1)]

\* the payload the hook of OpenOrdersPda was given
PdaPayload ==
    LET s == SelectSeq(calls, LAMBDA c : c.ev = "hook"
                                         /\ middlewares[c.idx].kind = "OpenOrdersPda")
    IN  s[1].arg

\* C7: the amount of the approve queued by the place-order hook of OpenOrdersPda is,
\* for a bid, exactly max_native_pc_qty_including_fees; for an ask, max_coin_qty times
\* the little-endian u64 at bytes 349..357 of the market account's data, whatever the
\* other bytes of that data are.
C7_ApproveAmount ==
    /\ \A k \in 1..Len(Approves) :
          /\ Recognized /\ ix.op = "NewOrderV3"
          /\ IF PdaPayload[1] = 0
             THEN Approves[k].ix.amount = SubSeq(PdaPayload, 10, 17)
             ELSE /\ market_data.len >= 5 + 43 * 8 + 8
                  /\ IsProduct(Approves[k].ix.amount, SubSeq(PdaPayload, 2, 9), LotBytes)
    /\ \A k \in 1..Len(middlewares) :
          (Recognized /\ ix.op = "NewOrderV3" /\ middlewares[k].kind = "OpenOrdersPda"
              /\ HookPassed(k)) => Len(Approves) = 1

C7_Witness ==
    /\ Recognized /\ ix.op = "NewOrderV3" /\ ix.payload[1] = 1
    /\ Len(Approves) = 1
    /\ market_data.fill = 255
    /\ LotBytes = U64(257)
    /\ ToNat(Approves[1].ix.amount) = 3 * 257

(***************************************************************************)
(* C8.  The user must have signed.                                         *)
(***************************************************************************)
AuthorityOps == {"NewOrderV3", "CancelOrderV2", "CancelOrderByClientIdV2",
                 "SettleFunds", "CloseOpenOrders"}

\* the position of the user account in the working list
UserPosition(op) ==
    CASE op = "NewOrderV3" -> 7
      [] op \in {"CancelOrderV2", "CancelOrderByClientIdV2"} -> 4
      [] op = "SettleFunds" -> 2
      [] op = "CloseOpenOrders" -> 1

\* OpenOrdersPda is registered and only Logger and ReferralFees, which leave the
\* working list alone, are registered before it
PdaFirstMutating ==
    \E k \in 1..Len(middlewares) :
        /\ middlewares[k].kind = "OpenOrdersPda"
        /\ \A j \in 1..(k - 1) : middlewares[j].kind \in {"Logger", "ReferralFees"}

\* an invocation of an authority operation whose user account is no signer
UserDidNotSign ==
    /\ PdaFirstMutating
    /\ Recognized /\ ix.op \in AuthorityOps
    /\ Len(acc_infos) >= ClaimedMinimum(ix.op)
    /\ ~At(acc_infos, UserPosition(ix.op)).is_signer

\* C8 as stated: such an invocation fails with UnauthorizedUser and reaches no
\* pre-instruction and no relay.
C8_AsStated ==
    (UserDidNotSign /\ pc = "done") => (result = "UnauthorizedUser" /\ ExternalCalls = <<>>)

\* C8, amended: with OpenOrdersPda the first account-mutating middleware, an invocation
\* of place-order, cancel-order, cancel-order-by-client-id, settle-funds or close-account
\* whose caller-supplied account at the user position (7, 4, 4, 2, 1) is no signer fails
\* and never reaches a pre-instruction or the main relay; the error is UnauthorizedUser
\* unless a hook registered before OpenOrdersPda failed first (ReferralFees on
\* settle-funds, with the error of its own check); equivalently, whenever the main relay of one of
\* these operations is executed the caller-supplied account at that position was a signer.
C8_UserMustSign ==
    /\ UserDidNotSign =>
          /\ ExternalCalls = <<>> /\ cpis = <<>> /\ pc # "exec"
          /\ pc = "done" =>
                \/ result = "UnauthorizedUser"
                \/ /\ result \in {"InvalidReferral", "AccountBorrowFailed"}
                   /\ ix.op = "SettleFunds"
                   /\ \E k \in 1..Len(middlewares) :
                         /\ middlewares[k].kind = "ReferralFees"
                         /\ \A j \in 1..k : middlewares[j].kind # "OpenOrdersPda"
    /\ (PdaFirstMutating /\ Recognized /\ ix.op \in AuthorityOps
          /\ <<"relay", 0>> \in Range(ExternalCalls))
       => At(acc_infos, UserPosition(ix.op)).is_signer

C8_Witness ==
    /\ UserDidNotSign /\ pc = "done" /\ result = "UnauthorizedUser"
    /\ ix.op = "CancelOrderV2"
    /\ At(acc_infos, 3).is_signer
    /\ Len(middlewares) = 2 /\ middlewares[1].kind = "Logger"

(***************************************************************************)
(* C9.  Local signer flags are backed by seed-paths at the relay.          *)
(***************************************************************************)
Relays == SelectSeq(cpis, LAMBDA c : c.kind = "relay")

\* C9: every account of the relayed list that carries a signer flag the caller did not
\* supply got it from a hook call that also pushed a seed-path, and the seed-paths of
\* that call are among the signer seeds of the main relay.
C9_LocalSignersBacked ==
    \A r \in Range(Relays) :
        \A k \in 1..Len(r.accounts) :
            (r.accounts[k].is_signer /\ ~SuppliedSigner(r.accounts[k].key)) =>
                \E f \in local_signers :
                    /\ f.key = r.accounts[k].key
                    /\ f.seeds # <<>>
                    /\ Range(f.seeds) \subseteq Range(r.signers)
                    /\ r.ix.accounts[k].is_signer

C9_Witness ==
    /\ Relays # <<>> /\ ix.op = "InitOpenOrders"
    /\ Cardinality(local_signers) = 2
    /\ Len(Relays[1].signers) = 2

(***************************************************************************)
(* C10.  Target validation.                                                *)
(***************************************************************************)
\* C10 as stated: when the first supplied account is not the DEX program, or is
\* missing, run fails with InvalidTargetProgram before any hook and any external call;
\* the step never aborts.
C10_AsStated ==
    /\ (pc # "start" /\ ~PassedTarget) =>
          /\ result = "InvalidTargetProgram"
          /\ calls = <<>> /\ cpis = <<>>
    /\ (pc # "start" /\ calls = <<>>) => result # "abort"

(***************************************************************************)
(* C11.  The first error wins.                                             *)
(***************************************************************************)
\* the steps of the pipeline that can fail
Steps == {"instruction", "hook", "fallback", "pre", "relay", "post", "callback"}

\* position in `calls` of the first step that did not return Ok, 0 when there is none
FirstFailure ==
    LET bad == {k \in 1..Len(outcomes) : outcomes[k] # "Ok"}
    IN  IF bad = {} THEN 0 ELSE CHOOSE k \in bad : \A j \in bad : k <= j

\* C11: as soon as one step fails (a pre-parse hook, an operation hook, a fallback hook,
\* a pre-instruction, the main relay, a post-instruction or a post-callback) no later
\* step is executed and the invocation ends with exactly that step's error; when the
\* relay fails after a pre-instruction succeeded no post-instruction is executed.
C11_FirstErrorWins ==
    /\ Len(outcomes) = Len(calls)
    /\ FirstFailure # 0 =>
          /\ FirstFailure = Len(calls)
          /\ pc = "done" /\ result = outcomes[FirstFailure]
    /\ (pc = "done" /\ result # "Ok" /\ calls # <<>>) => FirstFailure = Len(calls)
    /\ (FirstFailure # 0 /\ calls[FirstFailure].ev = "relay") =>
          /\ EventsOf({"post", "callback"}) = <<>>
          /\ \A c \in Range(cpis) : c.kind # "post"
          /\ cpis[Len(cpis)].kind = "relay"

C11_Witness ==
    /\ pc = "done" /\ result = "CpiError"
    /\ calls[Len(calls)].ev = "relay"
    /\ EventsOf({"pre"}) # <<>>
    /\ ctx.post_instructions # <<>> /\ ctx.post_callbacks # <<>>

(***************************************************************************)
(* C12.  Context.seeds is append-only.                                     *)
(***************************************************************************)
\* the number of seed-paths a successful hook of this kind appends for this operation
SeedsAppended(kind, op) ==
    IF kind # "OpenOrdersPda" THEN 0
    ELSE IF op = "InitOpenOrders" THEN 2
    ELSE IF op \in AuthorityOps THEN 1
    ELSE 0

\* C12: during an invocation every step leaves the seed-paths already in Context.seeds
\* in place and in order; a hook only appends (OpenOrdersPda two seed-paths on
\* initialize-account, one on the other authority operations, Logger and ReferralFees
\* none), an appended seed-path equal to one already there makes a second entry, and
\* the main relay is called with the whole list in that order.
C12_SeedsAppendOnly ==
    [][/\ pc # "instruction" => IsPrefix(ctx.seeds, ctx'.seeds)
       /\ (pc = "dispatch" /\ i <= Len(middlewares) /\ HookSucceeded) =>
             IF middlewares[i].kind = "Custom"
             THEN Len(ctx'.seeds) \in {Len(ctx.seeds), Len(ctx.seeds) + 1}
             ELSE Len(ctx'.seeds) = Len(ctx.seeds) + SeedsAppended(middlewares[i].kind, ix.op)
       /\ pc = "exec" => ctx'.seeds = ctx.seeds
       /\ (pc = "exec" /\ i = RelayAt /\ cpis' # cpis) =>
             /\ cpis'[Len(cpis')].kind = "relay"
             /\ cpis'[Len(cpis')].signers = ctx.seeds]_vars

C12_Witness ==
    /\ Relays # <<>> /\ ix.op = "CloseOpenOrders"
    /\ Len(ctx.seeds) = 2 /\ ctx.seeds[1] = ctx.seeds[2]
    /\ Relays[1].signers = ctx.seeds

(***************************************************************************)
(* C13.  ReferralFees::settle_funds.                                       *)
(***************************************************************************)
\* C13 as stated: the settle-funds hook of ReferralFees succeeds if and only if the
\* authority of the token account at working position 9 is the configured referral,
\* fails with InvalidReferral in every other case, and leaves the Context unchanged.
C13_AsStated ==
    [][HookStep("ReferralFees", "SettleFunds") =>
          /\ HookSucceeded \/ (pc' = "done" /\ result' = "InvalidReferral")
          /\ HookSucceeded <=>
                (~token_owner.borrowed /\ token_owner.authority = middlewares[i].referral)
          /\ ctx' = ctx]_vars

\* C13, amended: the settle-funds hook of ReferralFees succeeds if and only if the
\* authority of the token account at working position 9 can be read and is the
\* configured referral; when another authority is read it fails with InvalidReferral;
\* when the read itself fails it fails with the error of the read; in every case it
\* leaves the Context (and the payload) as it found them.
C13_ReferralCheck ==
    [][HookStep("ReferralFees", "SettleFunds") =>
          /\ Len(ctx.accounts) >= 10 /\ At(ctx.accounts, 9).key = 10
          /\ IF token_owner.borrowed
             THEN pc' = "done" /\ result' = "AccountBorrowFailed"
             ELSE IF token_owner.authority = middlewares[i].referral
                  THEN HookSucceeded
                  ELSE pc' = "done" /\ result' = "InvalidReferral"
          /\ ctx' = ctx /\ ix' = ix]_vars

C13_Witness ==
    /\ pc = "done" /\ result = "InvalidReferral"
    /\ Recognized /\ ix.op = "SettleFunds"
    /\ ~token_owner.borrowed /\ token_owner.authority # "referral"
    /\ Len(middlewares) = 2 /\ middlewares[2].kind = "ReferralFees"
    /\ EventIdx("hook") = <<1, 2>>

(***************************************************************************)
(* C14.  Operation hooks share one Context.                                *)
(***************************************************************************)
\* C14: for a recognized operation that passes the minimum-count check the operation
\* hooks are invoked in registration order, each at most once; the first is given the
\* fresh Context with the working list and the decoded payload, each later hook the
\* Context and payload exactly as the hook before it left them, and what the last
\* hook left is what run goes on with.
C14_HooksShareContext ==
    LET h == EventIdx("hook")
    IN  /\ Len(h) <= Len(middlewares) /\ h = Iota(Len(h))
        /\ Len(handed) = Len(h)
        /\ h # <<>> => /\ Recognized /\ Len(acc_infos) >= ClaimedMinimum(ix.op)
                       /\ handed[1].given[1] =
                              Context_new("program_id", SERUM_DEX_PROGRAM_ID, acc_infos)
                       /\ handed[1].given[2].op = ix.op
                       /\ handed[Len(h)].left = <<ctx, ix>>
        /\ \A k \in 1..(Len(h) - 1) : handed[k + 1].given = handed[k].left

C14_Witness ==
    /\ Len(handed) = 2 /\ ix.op = "CancelOrderV2"
    /\ middlewares[1].kind = "OpenOrdersPda" /\ middlewares[2].kind = "Custom"
    /\ handed[1].given[1].accounts = acc_infos
    /\ handed[2].given[1].accounts # acc_infos
    /\ handed[2].given[1].seeds # <<>>
    /\ handed[2].left[2] # handed[2].given[2]

(***************************************************************************)
(* C15.  The main relay.                                                   *)
(***************************************************************************)
\* what the last operation hook left (the fresh Context and the decoded payload when
\* no middleware is registered)
LeftByHooks ==
    IF handed = <<>>
    THEN <<Context_new("program_id", SERUM_DEX_PROGRAM_ID, acc_infos),
           unpack(EventsOf({"unpack"})[1].arg)>>
    ELSE handed[Len(handed)].left

\* C15: the main relay is a single external call; its target is SERUM_DEX_PROGRAM_ID;
\* its account list is the whole working list as the last hook left it, in order, each
\* account with its current is_signer and is_writable flags; its data is the
\* discriminant of the operation followed by the payload as the last hook left it,
\* with none of the bytes the pre-parse hooks stripped.
C15_MainRelay ==
    /\ Len(Relays) <= 1
    /\ \A r \in Range(Relays) :
          LET accs == LeftByHooks[1].accounts
              x == LeftByHooks[2]
          IN  /\ r.ix.program_id = SERUM_DEX_PROGRAM_ID
              /\ r.accounts = accs
              /\ Len(r.ix.accounts) = Len(accs)
              /\ \A k \in 1..Len(accs) :
                    /\ r.ix.accounts[k].pubkey = accs[k].key
                    /\ r.ix.accounts[k].is_signer = accs[k].is_signer
                    /\ r.ix.accounts[k].is_writable = accs[k].is_writable
              /\ Len(r.ix.data) = 1 + Len(x.payload)
              /\ r.ix.data[1] = Discriminant(x.op)
              /\ Tail(r.ix.data) = x.payload
    /\ (pc = "done" /\ result = "Ok" /\ Recognized) => Len(Relays) = 1

C15_Witness ==
    /\ Len(Relays) = 1 /\ ix.op = "CancelOrderV2"
    /\ Len(handed) = 2 /\ middlewares[1].kind = "OpenOrdersPda"
    /\ handed[2].left[2] # handed[2].given[2]
    /\ Len(Relays[1].ix.data) = Len(data) - 1
    /\ Tail(Relays[1].ix.data) # Tail(Tail(data))
    /\ Relays[1].accounts # acc_infos

(***************************************************************************)
(* C16.  Scope of the seed-paths.                                          *)
(***************************************************************************)
\* C16: every pre-instruction and every post-instruction is executed with exactly the
\* seed-paths queued with it, never with those of Context.seeds; the main relay is
\* executed with the whole of Context.seeds; the approve and the revoke queued by the
\* place-order hook of OpenOrdersPda are executed with no signer seeds.
C16_SeedScope ==
    LET np == Len(ctx.pre_instructions)
    IN  \A k \in 1..Len(cpis) :
           /\ cpis[k].kind = "pre" =>
                 /\ k <= np
                 /\ cpis[k].signers = ctx.pre_instructions[k].seeds
           /\ cpis[k].kind = "post" =>
                 /\ k > np + 1
                 /\ cpis[k].signers = ctx.post_instructions[k - np - 1].seeds
           /\ cpis[k].kind = "relay" => cpis[k].signers = ctx.seeds
           /\ (cpis[k].kind # "relay" /\ cpis[k].ix.program_id = "spl_token") =>
                 /\ cpis[k].ix.name \in {"approve", "revoke"}
                 /\ cpis[k].signers = <<>>
           /\ (cpis[k].kind # "relay" /\ cpis[k].ix.program_id = "custom") =>
                 cpis[k].signers = <<<<"custom", cpis[k].ix.source>>>>

C16_Witness ==
    /\ pc = "done" /\ result = "Ok" /\ Len(cpis) = 4
    /\ cpis[1].ix.name = "approve" /\ cpis[1].signers = <<>>
    /\ cpis[2].ix.program_id = "custom" /\ cpis[2].signers # <<>>
    /\ cpis[3].kind = "relay" /\ Len(cpis[3].signers) = 1
    /\ cpis[3].signers # cpis[2].signers
    /\ cpis[4].ix.name = "revoke" /\ cpis[4].signers = <<>>

(***************************************************************************)
(* C17.  The bump of the authority seed-path.                              *)
(***************************************************************************)
\* the bytes the pre-parse hook of OpenOrdersPda captures from the raw buffer of this
\* invocation (it captures when the first byte is 0, and nothing otherwise)
Captured ==
    IF Len(data) >= 3 /\ data[1] = 0
    THEN [some |-> TRUE, bump |-> data[2], bump_init |-> data[3]]
    ELSE [some |-> FALSE, bump |-> 0, bump_init |-> 0]

SeedsNamed(name) == SelectSeq(ctx.seeds, LAMBDA p : p[1] = name)

\* an authority hook of OpenOrdersPda was reached and returned Ok
PdaAuthorityHookPassed ==
    /\ Recognized /\ ix.op \in AuthorityOps \cup {"InitOpenOrders"}
    /\ \E k \in 1..Len(middlewares) :
          middlewares[k].kind = "OpenOrdersPda" /\ HookPassed(k)

\* C17 as stated: in every invocation that reaches an authority hook of OpenOrdersPda
\* the last component of the appended authority seed-path is the primary byte the
\* pre-parse hook captured from the raw buffer of this invocation, and for
\* initialize-account the init-authority seed-path ends with the captured secondary byte.
C17_AsStated ==
    PdaAuthorityHookPassed =>
        /\ Captured.some
        /\ SeedsNamed("open-orders") # <<>>
        /\ \A p \in Range(SeedsNamed("open-orders")) : p[Len(p)] = <<Captured.bump>>
        /\ ix.op = "InitOpenOrders" =>
              /\ SeedsNamed("open-orders-init") # <<>>
              /\ \A p \in Range(SeedsNamed("open-orders-init")) :
                    p[Len(p)] = <<Captured.bump_init>>

(***************************************************************************)
(* C18.  OpenOrdersPda::instruction.                                       *)
(***************************************************************************)
\* the next step is the pre-parse hook of OpenOrdersPda on a buffer [d, b1, b2, rest...]
PdaPreParseStep ==
    /\ pc = "instruction" /\ i <= Len(middlewares)
    /\ middlewares[i].kind = "OpenOrdersPda"
    /\ Len(ix_data) >= 3
    /\ calls' # calls

\* C18: on a buffer [d, b1, b2, rest...] the pre-parse hook of OpenOrdersPda, when
\* d = 0, stores b1 as the primary and b2 as the secondary bump and leaves exactly
\* rest (3 bytes consumed); when d is not 0 it consumes d only, leaves
\* [b1, b2, rest...] and leaves both stored bumps as they were; it returns Ok.
C18_PdaPreParse ==
    [][PdaPreParseStep =>
          /\ pc' = "instruction" /\ i' = i + 1 /\ result' = result
          /\ IF ix_data[1] = 0
             THEN /\ middlewares'[i].bump = ix_data[2]
                  /\ middlewares'[i].bump_init = ix_data[3]
                  /\ ix_data' = SubSeq(ix_data, 4, Len(ix_data))
                  /\ Len(ix_data') = Len(ix_data) - 3
             ELSE /\ ix_data' = SubSeq(ix_data, 2, Len(ix_data))
                  /\ Len(ix_data') = Len(ix_data) - 1
                  /\ middlewares'[i].bump = middlewares[i].bump
                  /\ middlewares'[i].bump_init = middlewares[i].bump_init
          /\ \A k \in 1..Len(middlewares) : k # i => middlewares'[k] = middlewares[k]]_vars

C18_Witness ==
    /\ pc = "instruction" /\ i = 2
    /\ middlewares[1].kind = "OpenOrdersPda"
    /\ data[1] = 0 /\ Len(data) > 3
    /\ middlewares[1].bump = data[2] /\ middlewares[1].bump_init = data[3]
    /\ middlewares[1].bump # middlewares[1].bump_init
    /\ ix_data = SubSeq(data, 4, Len(data))

(***************************************************************************)
(* C19.  Empty and malformed buffers.                                      *)
(***************************************************************************)
\* C19 as stated: for every raw buffer that is empty or too short to hold an
\* instruction (the empty buffer, a one-byte buffer, [0] and [0, x] included) and every
\* chain of OpenOrdersPda, Logger and ReferralFees, the invocation does not fail and
\* does not abort: the buffer is classified as unrecognized, the fallback hooks run
\* and the outcome is success.
C19_AsStated ==
    (pc = "done" /\ PassedTarget /\ ~HasKind("Custom") /\ data \in Malformed) =>
        /\ result = "Ok"
        /\ Unrecognized
        /\ EventIdx("fallback") = Iota(Len(middlewares))

(***************************************************************************)
(* C20.  What the authority hooks of OpenOrdersPda change.                 *)
(***************************************************************************)
\* the list accs with position `to` holding a copy of position `from` marked signer
Substituted(accs, to, from) ==
    [k \in 1..Len(accs) |->
        IF k = to + 1
        THEN [key |-> accs[from + 1].key, is_signer |-> TRUE,
              is_writable |-> accs[from + 1].is_writable]
        ELSE accs[k]]

\* the list accs with position k marked signer
Signed(accs, k) ==
    [j \in 1..Len(accs) |->
        IF j = k + 1
        THEN [key |-> accs[j].key, is_signer |-> TRUE, is_writable |-> accs[j].is_writable]
        ELSE accs[j]]

\* position of the market account for the authority operations
MarketPosition(op) == IF op = "CloseOpenOrders" THEN 3 ELSE 0

\* the working list a successful authority hook leaves of accs
AccountsAfter(op, accs) ==
    CASE op = "InitOpenOrders" ->
            Signed(Substituted([k \in 1..(Len(accs) - 2) |-> accs[k + 2]], 1, 0), 4)
      [] op = "NewOrderV3" -> Substituted(accs, 7, 1)
      [] op \in {"CancelOrderV2", "CancelOrderByClientIdV2"} -> Substituted(accs, 4, 3)
      [] op = "SettleFunds" -> Substituted(accs, 2, 1)
      [] op = "CloseOpenOrders" -> Substituted(accs, 1, 0)

\* the seed-paths a successful authority hook appends
SeedsAfter(op, accs, bump, bump_init) ==
    IF op = "InitOpenOrders"
    THEN <<<<"open-orders", SERUM_DEX_PROGRAM_ID, accs[5].key, accs[4].key, <<bump>>>>,
           <<"open-orders-init", SERUM_DEX_PROGRAM_ID, accs[5].key, <<bump_init>>>>>>
    ELSE <<<<"open-orders", SERUM_DEX_PROGRAM_ID, accs[MarketPosition(op) + 1].key,
             accs[UserPosition(op) + 1].key, <<bump>>>>>>

\* C20: a successful authority hook of OpenOrdersPda changes the working list only so:
\* initialize-account drops the two leading accounts, then position 1 becomes a copy
\* of position 0 marked signer and position 4 is marked signer; place-order: position 7
\* becomes a copy of position 1 marked signer; cancel-order and
\* cancel-order-by-client-id: 4 a copy of 3; settle-funds: 2 a copy of 1; close-account:
\* 1 a copy of 0; every other position keeps its account and flags.  The hook appends
\* exactly one authority seed-path, built from the key of the market account
\* (position 0, for close-account 3) and the key of the user account that was
\* replaced (initialize-account appends the init-authority seed-path after it).
C20_AuthorityFrame ==
    [][(\E op \in AuthorityOps \cup {"InitOpenOrders"} : HookStep("OpenOrdersPda", op)
          /\ HookSucceeded) =>
          /\ ctx'.accounts = AccountsAfter(ix.op, ctx.accounts)
          /\ ctx'.seeds = ctx.seeds \o SeedsAfter(ix.op, ctx.accounts, middlewares[i].bump,
                                                  middlewares[i].bump_init)
          /\ ix.op # "InitOpenOrders" =>
                /\ Len(ctx'.accounts) = Len(ctx.accounts)
                /\ \A k \in 0..(Len(ctx.accounts) - 1) :
                      k # UserPosition(ix.op) => At(ctx'.accounts, k) = At(ctx.accounts, k)
                /\ At(ctx'.accounts, UserPosition(ix.op)).is_signer
                /\ At(ctx'.accounts, UserPosition(ix.op)).key
                      # At(ctx.accounts, UserPosition(ix.op)).key
          /\ ctx'.program_id = ctx.program_id /\ ctx'.dex_program_id = ctx.dex_program_id
          /\ ctx'.post_callbacks = ctx.post_callbacks
          /\ ix' = ix]_vars

C20_Witness ==
    /\ Recognized /\ ix.op = "CloseOpenOrders"
    /\ Len(handed) = 1 /\ middlewares[1].kind = "OpenOrdersPda" /\ pc = "dispatch"
    /\ ~At(acc_infos, 0).is_signer
    /\ At(ctx.accounts, 1) = [key |-> At(acc_infos, 0).key, is_signer |-> TRUE,
                              is_writable |-> At(acc_infos, 0).is_writable]
    /\ ctx.seeds = <<<<"open-orders", SERUM_DEX_PROGRAM_ID, At(acc_infos, 3).key,
                       At(acc_infos, 1).key, <<middlewares[1].bump>>>>>>
    /\ middlewares[1].bump # 0

(***************************************************************************)
(* C21.  Approve and revoke around the relay of a place-order.             *)
(***************************************************************************)
Revokes == SelectSeq(ctx.post_instructions, LAMBDA q : q.ix.name = "revoke")

\* C21: a successful place-order hook of OpenOrdersPda queues exactly one
\* pre-instruction, a token approve from the payer token account (position 6) to the
\* delegate at position 1 authorized by the user account the caller supplied at
\* position 7, and exactly one post-instruction, a token revoke on the same token
\* account by the same user; a successful place-order through a chain in which only
\* OpenOrdersPda queues instructions makes exactly the calls approve, relay, revoke.
C21_ApproveRelayRevoke ==
    \A k \in 1..Len(middlewares) :
        (Recognized /\ ix.op = "NewOrderV3" /\ middlewares[k].kind = "OpenOrdersPda"
            /\ HookPassed(k)) =>
           LET given == handed[k].given[1]
               left == handed[k].left[1]
               payer == At(given.accounts, 6)
               delegate == At(given.accounts, 1)
               user == At(given.accounts, 7)
           IN  /\ Len(left.pre_instructions) = Len(given.pre_instructions) + 1
               /\ Len(left.post_instructions) = Len(given.post_instructions) + 1
               /\ Len(Approves) = 1 /\ Len(Revokes) = 1
               /\ Approves[1].ix.source = payer.key
               /\ Approves[1].ix.delegate = delegate.key
               /\ Approves[1].ix.owner = user.key
               /\ Approves[1].accounts = <<payer, delegate, user>>
               /\ user.is_signer /\ user.key = At(acc_infos, 7).key
               /\ Revokes[1].ix.source = payer.key
               /\ Revokes[1].ix.owner = user.key
               /\ Revokes[1].accounts = <<payer, user>>
               /\ (pc = "done" /\ result = "Ok" /\ ~HasKind("Custom")) =>
                     /\ Len(cpis) = 3
                     /\ cpis[1].kind = "pre" /\ cpis[1].ix = Approves[1].ix
                     /\ cpis[2].kind = "relay"
                     /\ cpis[3].kind = "post" /\ cpis[3].ix = Revokes[1].ix

C21_Witness ==
    /\ pc = "done" /\ result = "Ok" /\ Recognized /\ ix.op = "NewOrderV3"
    /\ HasKind("OpenOrdersPda") /\ ~HasKind("Custom")
    /\ Len(cpis) = 3 /\ cpis[1].ix.name = "approve" /\ cpis[3].ix.name = "revoke"
    /\ cpis[1].ix.delegate = 2 /\ cpis[1].ix.owner = 8 /\ cpis[1].ix.source = 7

(***************************************************************************)
(* C22.  OpenOrdersPda::prune.                                             *)
(***************************************************************************)
\* C22: on a working list of at least 7 accounts the prune hook of OpenOrdersPda checks
\* no signer and does not fail; it replaces position 5 with a copy of the account at
\* position 4 (same identity, same flags, the signer flag not forced), leaves every
\* other position as it was and appends no seed-path, no pre-instruction, no
\* post-instruction and no callback; the payload is untouched.
C22_PruneFrame ==
    [][(HookStep("OpenOrdersPda", "Prune") /\ Len(ctx.accounts) >= 7) =>
          /\ HookSucceeded
          /\ Len(ctx'.accounts) = Len(ctx.accounts)
          /\ At(ctx'.accounts, 5) = At(ctx.accounts, 4)
          /\ \A k \in 0..(Len(ctx.accounts) - 1) :
                k # 5 => At(ctx'.accounts, k) = At(ctx.accounts, k)
          /\ ctx'.seeds = ctx.seeds
          /\ ctx'.pre_instructions = ctx.pre_instructions
          /\ ctx'.post_instructions = ctx.post_instructions
          /\ ctx'.post_callbacks = ctx.post_callbacks
          /\ ix' = ix]_vars

C22_Witness ==
    /\ Recognized /\ ix.op = "Prune" /\ pc = "dispatch"
    /\ Len(handed) = 1 /\ middlewares[1].kind = "OpenOrdersPda"
    /\ \A k \in 1..Len(acc_infos) : ~acc_infos[k].is_signer
    /\ At(ctx.accounts, 5) = At(acc_infos, 4)
    /\ At(ctx.accounts, 5) # At(acc_infos, 5)
    /\ ctx.seeds = <<>>

(***************************************************************************)
(* C23.  Logger.                                                           *)
(***************************************************************************)
\* the next step is a hook of Logger (pre-parse, operation or fallback)
LoggerStep ==
    /\ pc \in {"instruction", "dispatch", "fallback"} /\ i <= Len(middlewares)
    /\ middlewares[i].kind = "Logger"
    /\ calls' # calls

WithoutLogger(mws) == SelectSeq(mws, LAMBDA m : m.kind # "Logger")

\* the operation hooks of the chain are over: all returned Ok, or one failed
HooksOver ==
    /\ Recognized /\ Len(acc_infos) >= ClaimedMinimum(ix.op)
    /\ pc \in {"exec", "done"}

\* what the operation hooks of the chain mws make of this invocation
HooksOutcome(mws) ==
    run_hooks(mws, 1, ix.op, Context_new("program_id", SERUM_DEX_PROGRAM_ID, acc_infos),
              unpack(EventsOf({"unpack"})[1].arg))

\* C23: every hook of Logger (pre-parse, operation, fallback) returns Ok and leaves the
\* raw buffer, the Context, the payload and the middlewares as they were; and what the
\* operation hooks of a chain of middlewares of the crate make of an invocation (the
\* error, or the Context and payload handed to the relay) is what the chain without
\* Logger makes of it.
C23_LoggerIsNeutral ==
    /\ [][LoggerStep =>
             /\ pc' = pc /\ i' = i + 1 /\ result' = result
             /\ ix_data' = ix_data /\ ctx' = ctx /\ ix' = ix
             /\ middlewares' = middlewares /\ cpis' = cpis]_vars
    /\ [](( HooksOver /\ ~HasKind("Custom")) =>
             LET r == HooksOutcome(WithoutLogger(middlewares))
             IN  IF EventsOf({"pre", "relay", "post", "callback"}) # <<>> \/ pc = "exec"
                 THEN r.res = "Ok" /\ r.ctx = ctx /\ r.ix = ix
                 ELSE r.res = result /\ r.ctx = ctx /\ r.ix = ix)

C23_Witness ==
    /\ pc = "done" /\ result = "Ok" /\ Recognized /\ ix.op = "SettleFunds"
    /\ Len(middlewares) = 2 /\ middlewares[1].kind = "Logger"
    /\ middlewares[2].kind = "OpenOrdersPda"
    /\ EventIdx("hook") = <<1, 2>>
    /\ handed[1].left = handed[1].given
    /\ handed[2].left # handed[2].given

(***************************************************************************)
(* C24.  Single pass.                                                      *)
(***************************************************************************)
Outcomes == {"Ok", "abort", "InvalidTargetProgram", "NotEnoughAccounts",
             "NotEnoughAccountKeys", "MissingRequiredSignature", "UnauthorizedUser",
             "InvalidReferral", "AccountBorrowFailed", "CustomError", "CpiError",
             "CallbackError"}

SinglePass ==
    /\ pc = "done" <=> result # "running"
    /\ pc = "done" => result \in Outcomes
    /\ \A j, k \in 1..Len(calls) :
          (calls[j].ev = calls[k].ev /\ calls[j].idx = calls[k].idx) => j = k
    /\ Len(cpis) = Len(EventsOf({"pre", "relay", "post"}))
    /\ Len(Relays) <= 1
    /\ (pc = "done" /\ result = "Ok" /\ Recognized) => Len(Relays) = 1
    /\ Unrecognized => Relays = <<>>

\* C24: every invocation of run ends, in exactly one outcome (success, or the one
\* failure that ended it) that no later step changes; no hook and no external call is
\* executed more than once; the main relay is executed at most once, exactly once in an
\* invocation that reports success for a recognized operation and never on the
\* fallback path.
C24_SinglePass ==
    /\ <>(pc = "done")
    /\ []SinglePass
    /\ [][pc # "done" /\ (pc' = "done" => result' # "running")]_vars

C24_Witness ==
    /\ pc = "done" /\ result = "Ok" /\ Recognized
    /\ Len(middlewares) = 2 /\ EventIdx("hook") = <<1, 2>>
    /\ Len(Relays) = 1 /\ Len(cpis) = 3
    /\ Len(EventsOf({"callback"})) = 2

(***************************************************************************)
(* The owner-assertion program (assert-owner/src/lib.rs).  An identity is  *)
(* its 32 bytes; an invocation is one call of entry on the accounts and    *)
(* the instruction data it was given.                                      *)
(***************************************************************************)
PUBKEY_BYTES == 32

\* Pubkey::try_from(&[u8]): the bytes themselves when there are exactly 32
Pubkey_try_from(bytes) ==
    IF Len(bytes) = PUBKEY_BYTES THEN [ok |-> TRUE, value |-> bytes]
    ELSE [ok |-> FALSE, value |-> <<>>]

\* a variant that looks at the instruction data before the accounts
entry_data_first(accs, instruction_data) ==
    IF Len(instruction_data) # PUBKEY_BYTES THEN "InvalidInstructionData"
    ELSE IF Len(accs) = 0 THEN "NotEnoughAccountKeys"
    ELSE IF Pubkey_try_from(instruction_data).value # accs[1].owner THEN "Custom(0x100)"
    ELSE "Ok"

\* lines 9-21
entry(accs, instruction_data) ==
    IF Len(accs) = 0 THEN "NotEnoughAccountKeys"
    ELSE IF Len(instruction_data) # PUBKEY_BYTES THEN "InvalidInstructionData"
    ELSE LET expected_owner == Pubkey_try_from(instruction_data)
         IN  IF ~expected_owner.ok THEN "InvalidInstructionData"
             ELSE IF expected_owner.value # accs[1].owner THEN "Custom(0x100)"
             ELSE "Ok"

\* identities that differ in every byte, or in the last byte only
Pubkeys ==
    {[k \in 1..PUBKEY_BYTES |-> 0], [k \in 1..PUBKEY_BYTES |-> 255],
     [k \in 1..PUBKEY_BYTES |-> IF k = PUBKEY_BYTES THEN 1 ELSE 0]}

\* an account as entry sees it: its key and the identity of its owner
OwnedAccount(key, owner) == [key |-> key, owner |-> owner]

OwnerAccounts ==
    {<<>>}
    \cup {<<OwnedAccount(1, o)>> : o \in Pubkeys}
    \cup {<<OwnedAccount(1, o[1]), OwnedAccount(2, o[2])>> : o \in Pubkeys \X Pubkeys}

\* instruction data of 0, 31, 32 and 33 bytes
OwnerData ==
    {<<>>} \cup Pubkeys
    \cup {SubSeq(o, 1, PUBKEY_BYTES - 1) : o \in Pubkeys}
    \cup {Append(o, 0) : o \in Pubkeys}

OwnerInit ==
    /\ accounts \in OwnerAccounts
    /\ data \in OwnerData
    /\ middlewares = <<>>
    /\ market_data = EmptyData
    /\ token_owner = TokenAccount(0, FALSE)
    /\ ix_data = data
    /\ acc_infos = <<>>
    /\ ctx = Context_new("program_id", SERUM_DEX_PROGRAM_ID, <<>>)
    /\ ix = None
    /\ pc = "start"
    /\ i = 1
    /\ result = "running"
    /\ calls = <<>>
    /\ handed = <<>>
    /\ outcomes = <<>>
    /\ cpis = <<>>
    /\ local_signers = {}

\* one invocation of the entrypoint
Entry ==
    /\ pc = "start"
    /\ pc' = "done"
    /\ result' = entry(accounts, data)
    /\ UNCHANGED <<middlewares, accounts, market_data, token_owner, data, ix_data,
                   acc_infos, ctx, ix, i, calls, handed, outcomes, cpis, local_signers>>

OwnerSpec == OwnerInit /\ [][Entry]_vars

\* the two identities agree byte for byte
SameIdentity(a, b) ==
    /\ Len(a) = Len(b)
    /\ \A k \in 1..Len(a) : a[k] = b[k]

(***************************************************************************)
(* C25: the owner-assertion program changes nothing it was given and       *)
(* checks in this order: no account -> NotEnoughAccountKeys; else data     *)
(* that is not exactly 32 bytes -> InvalidInstructionData; else success    *)
(* exactly when the first account's owner equals the 32 data bytes, and    *)
(* the mismatch error Custom(0x100) when they differ.  Only the first      *)
(* account enters the result.                                              *)
(***************************************************************************)
C25_OwnerAssertion ==
    [][/\ accounts' = accounts
       /\ data' = data
       /\ cpis' = cpis
       /\ result' =
            IF Len(accounts) = 0 THEN "NotEnoughAccountKeys"
            ELSE IF Len(data) # 32 THEN "InvalidInstructionData"
            ELSE IF SameIdentity(accounts[1].owner, data) THEN "Ok"
            ELSE "Custom(0x100)"]_vars

\* success with a second account owned by somebody else
C25_Witness ==
    /\ pc = "done" /\ result = "Ok"
    /\ Len(accounts) = 2
    /\ accounts[1].owner = data
    /\ accounts[2].owner # data

(***************************************************************************)
(* C26.  The minimum counts and the positions the hooks index.             *)
(***************************************************************************)
\* the last thing run did was to call the operation hook of a middleware of the crate
LastWasBuiltinHook ==
    /\ calls # <<>>
    /\ calls[Len(calls)].ev = "hook"
    /\ middlewares[calls[Len(calls)].idx].kind \in {"OpenOrdersPda", "Logger", "ReferralFees"}

\* C26 as stated: for every recognized operation and every working list that passes
\* its minimum-count check, every hook of OpenOrdersPda, Logger and ReferralFees
\* succeeds or returns an error value, none aborts; in particular an
\* initialize-account with exactly 4, 5 or 6 working accounts does not end in an abort.
C26_AsStated ==
    /\ (Recognized /\ Len(acc_infos) >= ClaimedMinimum(ix.op) /\ ~HasKind("Custom")
          /\ LastWasBuiltinHook) => result # "abort"
    /\ (Recognized /\ ix.op = "InitOpenOrders" /\ Len(acc_infos) \in {4, 5, 6}
          /\ ~HasKind("Custom")) => result # "abort"

(***************************************************************************)
(* C27.  An OpenOrdersPda hook that returns an error has changed nothing.  *)
(***************************************************************************)
\* the errors a hook of OpenOrdersPda returns for operation op
PdaErrors(op) ==
    IF op = "InitOpenOrders" THEN {"NotEnoughAccountKeys", "MissingRequiredSignature"}
    ELSE IF op \in AuthorityOps THEN {"UnauthorizedUser"}
    ELSE {}

\* C27: whenever a hook of OpenOrdersPda returns an error (missing signer or not
\* enough accounts for initialize-account, unauthorized user for place-order, both
\* cancels, settle-funds and close-account), the Context is exactly as it was before
\* the call: no seed-path, pre- or post-instruction appended, no account dropped,
\* replaced or flagged as signer.
C27_ErrorLeavesContext ==
    [][\A op \in Ops :
          (HookStep("OpenOrdersPda", op) /\ pc' = "done" /\ result' # "abort") =>
              /\ result' \in PdaErrors(op)
              /\ ctx' = ctx
              /\ handed'[Len(handed')].left[1] = handed'[Len(handed')].given[1]]_vars

\* OpenOrdersPda refused the user after an earlier middleware had pushed a seed-path
C27_Witness ==
    /\ pc = "done" /\ result = "UnauthorizedUser"
    /\ Len(middlewares) = 2 /\ middlewares[2].kind = "OpenOrdersPda"
    /\ Len(handed) = 2
    /\ handed[2].given[1].seeds # <<>>
    /\ handed[2].left[1] = handed[2].given[1]
    /\ ctx = handed[2].given[1]

(***************************************************************************)
(* C28.  The ask amount is never a wrapped product.                        *)
(***************************************************************************)
\* the next step is the place-order hook of OpenOrdersPda on an ask of a user who signed
PdaAskStep ==
    /\ HookStep("OpenOrdersPda", "NewOrderV3")
    /\ side(ix) = "Ask"
    /\ Has(ctx.accounts, 7) /\ At(ctx.accounts, 7).is_signer

\* bytes 349..356 of the data of the account at working position 0
LotOf(c) == [k \in 1..8 |-> DataByteAt(DataOf(At(c.accounts, 0)), 348 + k)]

\* q * lot is 2^64 or more (the quantities and lot sizes tried are below 2^24 or 2^32)
Exceeds(q, lot) == q = U64Pow(4) /\ lot = U64Pow(4)

\* C28: for a place-order with side ask the approval amount is never a product wrapped
\* modulo 2^64: if max_coin_qty times the lot size exceeds the largest u64, or the
\* market account data is shorter than 357 bytes, the invocation is aborted and no
\* approve, no relay and no revoke is executed; otherwise the amount is the exact
\* product.
C28_AskNeverWraps ==
    /\ [][PdaAskStep =>
             LET q == max_coin_qty(ix)
                 lot == LotOf(ctx)
                 short == DataOf(At(ctx.accounts, 0)).len < 357
             IN  IF short \/ Exceeds(q, lot)
                 THEN /\ pc' = "done" /\ result' = "abort"
                      /\ ctx' = ctx /\ cpis' = <<>>
                 ELSE /\ HookSucceeded
                      /\ Len(ctx'.pre_instructions) = Len(ctx.pre_instructions) + 1
                      /\ LET pre == ctx'.pre_instructions[Len(ctx'.pre_instructions)]
                         IN  /\ pre.ix.name = "approve"
                             /\ IsProduct(pre.ix.amount, q, lot)]_vars
    /\ []((pc = "done" /\ result = "abort") => cpis = <<>>)

\* 2^32 lots of 2^32: the hook aborted, nothing was executed
C28_Witness ==
    /\ pc = "done" /\ result = "abort"
    /\ Recognized /\ ix.op = "NewOrderV3" /\ side(ix) = "Ask"
    /\ calls[Len(calls)].ev = "hook"
    /\ max_coin_qty(ix) = U64Pow(4)
    /\ market_data.len = 357 /\ market_data.lot = U64Pow(4)
    /\ Has(ctx.accounts, 7) /\ At(ctx.accounts, 7).is_signer
    /\ ctx.pre_instructions = <<>> /\ cpis = <<>>

(***************************************************************************)
(* C29.  OpenOrdersPda and ReferralFees commute on settle-funds.           *)
(***************************************************************************)
\* the chain is OpenOrdersPda and ReferralFees, in either order, and the hooks of a
\* settle-funds with at least 10 working accounts are over
PdaAndReferralSettled ==
    /\ HooksOver /\ ix.op = "SettleFunds" /\ Len(acc_infos) >= 10
    /\ Len(middlewares) = 2
    /\ {middlewares[1].kind, middlewares[2].kind} = {"OpenOrdersPda", "ReferralFees"}

\* the same two middlewares registered the other way round
Swapped == <<middlewares[2], middlewares[1]>>

\* the main relay run makes of a Context
RelayOf(c) ==
    Invocation("relay",
               [program_id |-> SERUM_DEX_PROGRAM_ID, data |-> ix_data,
                accounts |-> AccountMetas(c.accounts)],
               c.accounts, signer_seeds(c.seeds))

\* C29: on settle-funds the chains [OpenOrdersPda, ReferralFees] and [ReferralFees,
\* OpenOrdersPda] are equivalent in outcome: for every working list of at least 10
\* accounts the hooks succeed under one order if and only if they succeed under the
\* other, and then both orders leave the same working list and the same seed-paths,
\* hence the same main relay; only the error reported may differ.
C29_OrderIrrelevant ==
    PdaAndReferralSettled =>
        LET there == HooksOutcome(Swapped)
            passed == pc = "exec" \/ Relays # <<>>
        IN  /\ passed <=> there.res = "Ok"
            /\ ~passed => (result # "Ok" /\ calls[Len(calls)].ev = "hook")
            /\ passed =>
                  /\ there.ctx.accounts = LeftByHooks[1].accounts
                  /\ there.ctx.seeds = LeftByHooks[1].seeds
                  /\ there.ctx = LeftByHooks[1]
                  /\ there.ix = LeftByHooks[2]
                  /\ \A k \in 1..Len(Relays) : Relays[k] = RelayOf(there.ctx)

\* ReferralFees first, OpenOrdersPda second: the relay is signed with the seed-path
\* and carries the account OpenOrdersPda flagged
C29_Witness ==
    /\ pc = "done" /\ result = "Ok" /\ PdaAndReferralSettled
    /\ middlewares[1].kind = "ReferralFees"
    /\ Len(Relays) = 1
    /\ Len(Relays[1].signers) = 1
    /\ At(Relays[1].accounts, 2).is_signer
    /\ At(Relays[1].accounts, 2).key = At(acc_infos, 1).key
    /\ HooksOutcome(Swapped).res = "Ok"

====
